---- MODULE Spec2Model ----
(***************************************************************************)
(* A model of the radiocarbon calibration engine (src/src/calibration-     *)
(* math.js) and of the curve data provider it reads                        *)
(* (src/src/components/AppHeader.js, the data-loader module).              *)
(*                                                                         *)
(* Numbers.  The JavaScript code computes with IEEE-754 doubles.  The      *)
(* model computes with exact rationals over integer inputs: a rational is  *)
(* a record [n, d] in lowest terms with d > 0; d = 0 stands for the result *)
(* of a division by zero (Infinity or NaN).  Rounding of doubles is not    *)
(* modelled; the two effects of doubles that change control flow are:      *)
(* Math.min() / Math.max() of no arguments (Infinity, -Infinity) and the   *)
(* underflow of Math.exp to 0, and both are modelled.                      *)
(***************************************************************************)
EXTENDS Integers, Sequences, FiniteSets, TLC

VARIABLES
  call,                \* the pure function under test and its arguments
  ret,                 \* what that function returned
  CALIBRATION_CURVES,  \* data-loader's module-level cache (null or a CurveSet)
  pc,                  \* where the calibrateDate call stands: idle, awaitLoad, done
  args,                \* the five arguments of the calibrateDate call
  outcome,             \* locals and result (or error) of the calibrateDate call
  getReturned,         \* what getCalibrationData returned in this call
  load,                \* the loadCalibrationData call of this call, if any
  calls,               \* calibrateDate calls in flight at the same time, by caller
  loads,               \* loadCalibrationData calls in flight, by caller
  got,                 \* what the last getCalibrationData call returned
  app,                 \* the state of the App component (its useState values)
  tasks,               \* the App's calibration handlers in flight
  url                  \* window.location.search

vars == <<call, ret, CALIBRATION_CURVES, pc, args, outcome, getReturned, load,
          calls, loads, got, app, tasks, url>>

pipelineVars == <<CALIBRATION_CURVES, pc, args, outcome, getReturned, load>>

\* The state of the callers around the engine and the provider.
loaderVars == <<loads, got>>

appVars == <<app, tasks, url>>

otherVars == <<calls, loads, got, app, tasks, url>>

(***************************************************************************)
(* Bounds of the model.                                                    *)
(***************************************************************************)
MaxCal == 5        \* test curves have cal_BP in 0..MaxCal
MaxCurveLen == 3   \* test curves have at most MaxCurveLen points
MaxYear == 4       \* test distributions have cal_BP in 0..MaxYear
MaxDistLen == 4    \* test distributions have at most MaxDistLen points
MaxProb == 2       \* test distributions have probabilities in 0..MaxProb

(***************************************************************************)
(* Arithmetic helpers.                                                     *)
(***************************************************************************)
Abs(x) == IF x < 0 THEN -x ELSE x

Max2(a, b) == IF a >= b THEN a ELSE b

Min2(a, b) == IF a <= b THEN a ELSE b

RECURSIVE GCD(_, _)
GCD(a, b) == IF b = 0 THEN a ELSE GCD(b, a % b)

\* The rational n/d in lowest terms, d > 0; n/0 is kept as it is.
Rat(n, d) ==
  IF d = 0 THEN [n |-> n, d |-> 0]
  ELSE LET g == GCD(Abs(n), Abs(d))
           s == IF d < 0 THEN -1 ELSE 1
       IN  [n |-> s * (n \div g), d |-> s * (d \div g)]

RatInt(k) == [n |-> k, d |-> 1]

RatAdd(a, b) == Rat(a.n * b.d + b.n * a.d, a.d * b.d)

RatSub(a, b) == Rat(a.n * b.d - b.n * a.d, a.d * b.d)

RatMul(a, b) == Rat(a.n * b.n, a.d * b.d)

RatDiv(a, b) == Rat(a.n * b.d, a.d * b.n)

RatLess(a, b) == a.n * b.d < b.n * a.d

IsNumber(r) == r.d # 0

(***************************************************************************)
(* CurvePoint: {cal_BP, c14_BP, error}.  Curve files hold integers.        *)
(***************************************************************************)
Point(cal, c14, err) == [cal_BP |-> cal, c14_BP |-> c14, error |-> err]

\* JavaScript arrays are indexed from 0.
At(arr, i) == arr[i + 1]

InRange(arr, i) == i >= 0 /\ i < Len(arr)

(***************************************************************************)
(* interpolate(targetCalBP, lowerPoint, upperPoint)                        *)
(***************************************************************************)
interpolateFromUpper(targetCalBP, lowerPoint, upperPoint) ==
  IF lowerPoint.cal_BP = upperPoint.cal_BP
  THEN [c14_BP |-> RatInt(lowerPoint.c14_BP), error |-> RatInt(lowerPoint.error)]
  ELSE LET factor == Rat(upperPoint.cal_BP - targetCalBP,
                         upperPoint.cal_BP - lowerPoint.cal_BP)
       IN  [c14_BP |-> RatAdd(RatInt(lowerPoint.c14_BP),
                              RatMul(factor, RatInt(upperPoint.c14_BP - lowerPoint.c14_BP))),
            error  |-> RatAdd(RatInt(lowerPoint.error),
                              RatMul(factor, RatInt(upperPoint.error - lowerPoint.error)))]

interpolate(targetCalBP, lowerPoint, upperPoint) ==
  IF lowerPoint.cal_BP = upperPoint.cal_BP
  THEN [c14_BP |-> RatInt(lowerPoint.c14_BP), error |-> RatInt(lowerPoint.error)]
  ELSE LET factor == Rat(targetCalBP - lowerPoint.cal_BP,
                         upperPoint.cal_BP - lowerPoint.cal_BP)
       IN  [c14_BP |-> RatAdd(RatInt(lowerPoint.c14_BP),
                              RatMul(factor, RatInt(upperPoint.c14_BP - lowerPoint.c14_BP))),
            error  |-> RatAdd(RatInt(lowerPoint.error),
                              RatMul(factor, RatInt(upperPoint.error - lowerPoint.error)))]

(***************************************************************************)
(* getCurveValueAt(calBP, curveData)                                       *)
(*                                                                         *)
(* The value returned is either a curve point itself (with its cal_BP) or  *)
(* the {c14_BP, error} object of interpolate.  Reading a property of       *)
(* curveData[i] for an index outside the array is a TypeError; a loop that *)
(* has run more often than the array is long is reported as "diverges".    *)
(***************************************************************************)
PointValue(p) ==
  [kind |-> "point", cal_BP |-> p.cal_BP,
   c14_BP |-> RatInt(p.c14_BP), error |-> RatInt(p.error)]

InterpolatedValue(v) ==
  [kind |-> "interpolated", c14_BP |-> v.c14_BP, error |-> v.error]

TypeErrorValue == [kind |-> "TypeError"]

DivergesValue == [kind |-> "diverges"]

RECURSIVE BinarySearchCalBPHighMid(_, _, _, _, _)
BinarySearchCalBPHighMid(calBP, curveData, low, high, steps) ==
  IF steps > Len(curveData) THEN DivergesValue
  ELSE IF low <= high THEN
    LET mid == (low + high) \div 2 IN
    IF ~InRange(curveData, mid) THEN TypeErrorValue
    ELSE IF At(curveData, mid).cal_BP < calBP
      THEN BinarySearchCalBPHighMid(calBP, curveData, mid + 1, high, steps + 1)
    ELSE IF At(curveData, mid).cal_BP > calBP
      THEN BinarySearchCalBPHighMid(calBP, curveData, low, mid, steps + 1)
    ELSE PointValue(At(curveData, mid))
  ELSE IF ~InRange(curveData, high) \/ ~InRange(curveData, low) THEN TypeErrorValue
  ELSE InterpolatedValue(interpolate(calBP, At(curveData, high), At(curveData, low)))

\* The while loop of getCurveValueAt from (low, high), after `steps` iterations.
RECURSIVE BinarySearchCalBP(_, _, _, _, _)
BinarySearchCalBP(calBP, curveData, low, high, steps) ==
  IF steps > Len(curveData) THEN DivergesValue
  ELSE IF low <= high THEN
    LET mid == (low + high) \div 2 IN
    IF ~InRange(curveData, mid) THEN TypeErrorValue
    ELSE IF At(curveData, mid).cal_BP < calBP
      THEN BinarySearchCalBP(calBP, curveData, mid + 1, high, steps + 1)
    ELSE IF At(curveData, mid).cal_BP > calBP
      THEN BinarySearchCalBP(calBP, curveData, low, mid - 1, steps + 1)
    ELSE PointValue(At(curveData, mid))
  ELSE IF ~InRange(curveData, high) \/ ~InRange(curveData, low) THEN TypeErrorValue
  ELSE InterpolatedValue(interpolate(calBP, At(curveData, high), At(curveData, low)))

getCurveValueAt(calBP, curveData) ==
  IF Len(curveData) = 0 THEN TypeErrorValue
  ELSE IF calBP <= At(curveData, 0).cal_BP THEN PointValue(At(curveData, 0))
  ELSE IF calBP >= At(curveData, Len(curveData) - 1).cal_BP
    THEN PointValue(At(curveData, Len(curveData) - 1))
  ELSE BinarySearchCalBP(calBP, curveData, 0, Len(curveData) - 1, 0)

(***************************************************************************)
(* createUniformDistribution(curveData, startYear, endYear)                *)
(***************************************************************************)
UniformPoint(calBP, v) ==
  IF v.kind \in {"point", "interpolated"}
  THEN [cal_BP |-> calBP, c14_BP |-> v.c14_BP, error |-> v.error]
  ELSE [cal_BP |-> calBP, c14_BP |-> Rat(0, 0), error |-> Rat(0, 0)]

createUniformDistributionExclusive(curveData, startYear, endYear) ==
  [k \in 1..Max2(0, endYear - startYear) |->
     UniformPoint(startYear + k - 1, getCurveValueAt(startYear + k - 1, curveData))]

createUniformDistribution(curveData, startYear, endYear) ==
  [k \in 1..Max2(0, endYear - startYear + 1) |->
     UniformPoint(startYear + k - 1, getCurveValueAt(startYear + k - 1, curveData))]

(***************************************************************************)
(* findHPD(probDist, conf)                                                 *)
(*                                                                         *)
(* A ProbabilityPoint is [cal_BP, probability]; the probability is a       *)
(* rational, and a probability with d = 0 is NaN (0/0): every comparison   *)
(* with NaN is false and a comparator that returns NaN counts as 0.        *)
(* conf is a rational as well.  Array.prototype.sort is stable.            *)
(***************************************************************************)
ProbPoint(cal, p) == [cal_BP |-> cal, probability |-> p]

JsLess(a, b) == IsNumber(a) /\ IsNumber(b) /\ RatLess(a, b)

JsGeq(a, b) == IsNumber(a) /\ IsNumber(b) /\ ~RatLess(a, b)

JsLeq(a, b) == IsNumber(a) /\ IsNumber(b) /\ ~RatLess(b, a)

\* The comparators passed to sort: TRUE when the comparator is < 0 for (a, b).
\*   "probabilityDescending": (a, b) => b.probability - a.probability
\*   "calBP":                 (a, b) => a.cal_BP - b.cal_BP
\*   "x":                     (a, b) => a.x - b.x
Before(comparator, a, b) ==
  CASE comparator = "probabilityDescending" -> JsLess(b.probability, a.probability)
    [] comparator = "calBP" -> a.cal_BP < b.cal_BP
    [] comparator = "x" -> a.x < b.x

\* Array.prototype.sort, which is stable: the k-th element of the result is
\* the element that has k - 1 elements before it.
StableSortTiesReversed(arr, comparator) ==
  LET n == Len(arr)
      rank(i) == Cardinality({j \in 1..n : Before(comparator, arr[j], arr[i])})
                 + Cardinality({j \in (i + 1)..n :
                                  /\ ~Before(comparator, arr[j], arr[i])
                                  /\ ~Before(comparator, arr[i], arr[j])})
                 + 1
  IN  [k \in 1..n |-> arr[CHOOSE i \in 1..n : rank(i) = k]]

StableSort(arr, comparator) ==
  LET n == Len(arr)
      rank(i) == Cardinality({j \in 1..n : Before(comparator, arr[j], arr[i])})
                 + Cardinality({j \in 1..(i - 1) :
                                  /\ ~Before(comparator, arr[j], arr[i])
                                  /\ ~Before(comparator, arr[i], arr[j])})
                 + 1
  IN  [k \in 1..n |-> arr[CHOOSE i \in 1..n : rank(i) = k]]

SortedByProbAscending(probDist) ==
  LET sorted == StableSort(probDist, "probabilityDescending")
  IN  [k \in 1..Len(sorted) |-> sorted[Len(sorted) + 1 - k]]

SortedByProb(probDist) == StableSort(probDist, "probabilityDescending")

RECURSIVE SumProbability(_, _)
SumProbability(arr, i) ==
  IF i > Len(arr) THEN RatInt(0)
  ELSE LET rest == SumProbability(arr, i + 1)
       IN  RatAdd(rest, arr[i].probability)

\* probDist.reduce((sum, p) => sum + p.probability, 0)
TotalProbability(probDist) == SumProbability(probDist, 1)

\* The for loop that collects points; i is the next point of sortedByProb.
RECURSIVE CollectBelowThreshold(_, _, _, _, _)
CollectBelowThreshold(sortedByProb, targetProb, i, cumulativeProb, includedPoints) ==
  IF i > Len(sortedByProb) THEN includedPoints
  ELSE LET sum == RatAdd(cumulativeProb, sortedByProb[i].probability)
       IN  IF JsGeq(sum, targetProb) THEN includedPoints
           ELSE CollectBelowThreshold(sortedByProb, targetProb, i + 1, sum,
                                      Append(includedPoints, sortedByProb[i]))

RECURSIVE Collect(_, _, _, _, _)
Collect(sortedByProb, targetProb, i, cumulativeProb, includedPoints) ==
  IF i > Len(sortedByProb) THEN includedPoints
  ELSE LET sum == RatAdd(cumulativeProb, sortedByProb[i].probability)
           inc == Append(includedPoints, sortedByProb[i])
       IN  IF JsGeq(sum, targetProb) THEN inc
           ELSE Collect(sortedByProb, targetProb, i + 1, sum, inc)

\* The loop that cuts the included points, sorted by cal_BP, into intervals.
RECURSIVE IntervalsFromAdjacent(_, _, _, _, _)
IntervalsFromAdjacent(includedPoints, i, start, prev, intervals) ==
  IF i > Len(includedPoints)
  THEN Append(intervals, [min |-> start.cal_BP, max |-> prev.cal_BP])
  ELSE LET curr == includedPoints[i] IN
       IF curr.cal_BP - prev.cal_BP >= 1
       THEN IntervalsFromAdjacent(includedPoints, i + 1, curr, curr,
              Append(intervals, [min |-> start.cal_BP, max |-> prev.cal_BP]))
       ELSE IntervalsFromAdjacent(includedPoints, i + 1, start, curr, intervals)

RECURSIVE ContiguousIntervals(_, _, _, _, _)
ContiguousIntervals(includedPoints, i, start, prev, intervals) ==
  IF i > Len(includedPoints)
  THEN Append(intervals, [min |-> start.cal_BP, max |-> prev.cal_BP])
  ELSE LET curr == includedPoints[i] IN
       IF curr.cal_BP - prev.cal_BP > 1
       THEN ContiguousIntervals(includedPoints, i + 1, curr, curr,
              Append(intervals, [min |-> start.cal_BP, max |-> prev.cal_BP]))
       ELSE ContiguousIntervals(includedPoints, i + 1, start, curr, intervals)

DefaultConf == Rat(95, 100)

\* conf after the validation of findHPD.
EffectiveConfBelowZero(conf) ==
  IF JsLess(conf, RatInt(0)) \/ JsLess(RatInt(1), conf) THEN DefaultConf ELSE conf

EffectiveConf(conf) ==
  IF JsLeq(conf, RatInt(0)) \/ JsLess(RatInt(1), conf) THEN DefaultConf ELSE conf

IncludedPointsComplement(probDist, conf) ==
  LET targetProb == RatMul(TotalProbability(probDist),
                           RatSub(RatInt(1), EffectiveConf(conf)))
  IN  Collect(SortedByProb(probDist), targetProb, 1, RatInt(0), <<>>)

\* The points findHPD includes, in the order it collects them.
IncludedPoints(probDist, conf) ==
  LET targetProb == RatMul(TotalProbability(probDist), EffectiveConf(conf))
  IN  Collect(SortedByProb(probDist), targetProb, 1, RatInt(0), <<>>)

findHPDUnsorted(probDist, conf) ==
  IF Len(probDist) = 0 THEN <<>>
  ELSE LET includedPoints == IncludedPoints(probDist, conf)
       IN  IF Len(includedPoints) = 0 THEN <<>>
           ELSE ContiguousIntervals(includedPoints, 2, includedPoints[1],
                                    includedPoints[1], <<>>)

findHPD(probDist, conf) ==
  IF Len(probDist) = 0 THEN <<>>
  ELSE LET includedPoints == StableSort(IncludedPoints(probDist, conf), "calBP")
       IN  IF Len(includedPoints) = 0 THEN <<>>
           ELSE ContiguousIntervals(includedPoints, 2, includedPoints[1],
                                    includedPoints[1], <<>>)

(***************************************************************************)
(* calculateProbability(c14Age, c14Error, curveC14BP, curveError)          *)
(*                                                                         *)
(* The density exp(-0.5 * (deviation / totalError)^2) / (totalError *      *)
(* sqrt(2 * PI)) is kept in fixed point: the exponential in thousandths,   *)
(* read at the integer part of (deviation / totalError)^2, the division by *)
(* totalError in tenths, and the constant sqrt(2 * PI), which is the same  *)
(* for every point, left out.  A density that the double arithmetic keeps  *)
(* above zero is at least one unit.  Math.exp(x) is 0 in doubles for       *)
(* x < -745.13, that is for (deviation / totalError)^2 > 1490.             *)
(***************************************************************************)
\* 1000 * exp(-k / 2), rounded, for k = 0, 1, 2, ...
ExpTable == <<1000, 607, 368, 223, 135, 82, 50, 30, 18, 11, 7, 4, 2, 2>>

RatAbs(a) == [n |-> Abs(a.n), d |-> a.d]

\* The integer part of a rational >= 0.
RatFloor(a) == a.n \div a.d

\* The integer part of the square root of n >= 0.
Isqrt(n) == CHOOSE r \in 0..(n + 1) : r * r <= n /\ n < (r + 1) * (r + 1)

\* Math.exp(-0.5 * z2) in thousandths; deviations of 1000 or more are
\* beyond the underflow for every totalError of the test data.
ExpNegHalf(deviation, totalError2) ==
  IF ~RatLess(RatAbs(deviation), RatInt(1000)) THEN 0
  ELSE LET z2 == RatDiv(RatMul(deviation, deviation), totalError2)
       IN  IF RatLess(RatInt(1490), z2) THEN 0
           ELSE IF RatFloor(z2) < Len(ExpTable) THEN ExpTable[RatFloor(z2) + 1]
           ELSE 1

calculateProbabilityMeasuredErrorOnly(c14Age, c14Error, curveC14BP, curveError) ==
  LET totalError2 == RatInt(c14Error * c14Error)
      deviation == RatSub(RatInt(c14Age), curveC14BP)
      e == ExpNegHalf(deviation, totalError2)
      totalError10 == Isqrt(RatFloor(RatMul(RatInt(100), totalError2)))
  IN  IF e = 0 THEN 0 ELSE Max2(1, (10 * e) \div totalError10)

calculateProbability(c14Age, c14Error, curveC14BP, curveError) ==
  LET totalError2 == RatAdd(RatInt(c14Error * c14Error), RatMul(curveError, curveError))
      deviation == RatSub(RatInt(c14Age), curveC14BP)
      e == ExpNegHalf(deviation, totalError2)
      \* 10 * totalError, rounded down
      totalError10 == Isqrt(RatFloor(RatMul(RatInt(100), totalError2)))
  IN  IF e = 0 THEN 0 ELSE Max2(1, (10 * e) \div totalError10)

(***************************************************************************)
(* findCalendarRangeByC14BP(curveData, c14Age, uncertainty)                *)
(***************************************************************************)
MAX_C14_AGE == 100000

SEARCH_SIGMAS == 5

\* Math.min() of no arguments is Infinity and Math.max() is -Infinity; the
\* model writes them as a number beyond every number of the program.
Infinity == 1000 * MAX_C14_AGE

IsFinite(x) == x # Infinity /\ x # 0 - Infinity

\* x + k in JavaScript numbers.
JsPlus(x, k) == IF IsFinite(x) THEN x + k ELSE x

\* [...curveData].sort((a, b) => a.c14_BP - b.c14_BP)
C14SortedCurve(curveData) ==
  LET n == Len(curveData)
      rank(i) == Cardinality({j \in 1..n : curveData[j].c14_BP < curveData[i].c14_BP})
                 + Cardinality({j \in 1..(i - 1) : curveData[j].c14_BP = curveData[i].c14_BP})
                 + 1
  IN  [k \in 1..n |-> curveData[CHOOSE i \in 1..n : rank(i) = k]]

\* The first binary search: minIndex after the loop from (low, high).
RECURSIVE SearchMinIndex(_, _, _, _, _)
SearchMinIndex(c14SortedCurve, minC14, low, high, minIndex) ==
  IF low > high THEN minIndex
  ELSE LET mid == (low + high) \div 2 IN
       IF At(c14SortedCurve, mid).c14_BP < minC14
       THEN SearchMinIndex(c14SortedCurve, minC14, mid + 1, high, minIndex)
       ELSE SearchMinIndex(c14SortedCurve, minC14, low, mid - 1, mid)

\* The second binary search: maxIndex after the loop from (low, high).
RECURSIVE SearchMaxIndex(_, _, _, _, _)
SearchMaxIndex(c14SortedCurve, maxC14, low, high, maxIndex) ==
  IF low > high THEN maxIndex
  ELSE LET mid == (low + high) \div 2 IN
       IF At(c14SortedCurve, mid).c14_BP <= maxC14
       THEN SearchMaxIndex(c14SortedCurve, maxC14, mid + 1, high, mid)
       ELSE SearchMaxIndex(c14SortedCurve, maxC14, low, mid - 1, maxIndex)

\* Math.min(...years) and Math.max(...years) of a set of years.
MathMin(years) ==
  IF years = {} THEN Infinity ELSE CHOOSE y \in years : \A z \in years : y <= z

MathMax(years) ==
  IF years = {} THEN 0 - Infinity ELSE CHOOSE y \in years : \A z \in years : y >= z

findCalendarRangeByC14BP(curveData, c14Age, uncertainty) ==
  LET c14SortedCurve == C14SortedCurve(curveData)
      searchRange == SEARCH_SIGMAS * uncertainty
      minC14 == c14Age - searchRange
      maxC14 == c14Age + searchRange
      minIndex == SearchMinIndex(c14SortedCurve, minC14, 0, Len(c14SortedCurve) - 1, 0)
      maxIndex == SearchMaxIndex(c14SortedCurve, maxC14, 0, Len(c14SortedCurve) - 1,
                                 Len(c14SortedCurve) - 1)
      \* c14SortedCurve.slice(minIndex, maxIndex + 1).map(p => p.cal_BP)
      calYears == {At(c14SortedCurve, i).cal_BP : i \in minIndex..maxIndex}
  IN  [min |-> MathMin(calYears), max |-> MathMax(calYears)]

(***************************************************************************)
(* calibrateDate(c14_age, uncertainty, reservoir_correction, curveType,    *)
(*               search_mode)                                              *)
(*                                                                         *)
(* An argument is a JavaScript value: a number, NaN (typeof 'number'), or  *)
(* a value of another type (a string).                                     *)
(***************************************************************************)
Num(v) == [t |-> "number", v |-> v]

NaN == [t |-> "NaN", v |-> 0]

NotANumber == [t |-> "string", v |-> 0]

\* undefined: the value of a parameter the caller left out.
Undefined == [t |-> "undefined", v |-> 0]

\* A curveType or search_mode argument left out (not a string).
Omitted == "(undefined)"

TypeofNumber(x) == x.t \in {"number", "NaN"}

IsNaN(x) == x.t = "NaN"

CURVE_TYPES == {"IntCal20", "SHCal20", "Marine20"}

SEARCH_MODES == {"c14_bp", "full_curve", "fixed_range"}

\* The parameters of calibrateDate with their defaults:
\* reservoir_correction = 0, curveType = CURVE_TYPES.INTCAL20,
\* search_mode = SEARCH_MODES.C14_BP.
ParametersLegacyDefault(a) ==
  [c14_age |-> a.c14_age,
   uncertainty |-> a.uncertainty,
   reservoir_correction |->
     IF a.reservoir_correction = Undefined THEN Num(0) ELSE a.reservoir_correction,
   curveType |-> IF a.curveType = Omitted THEN "IntCal20" ELSE a.curveType,
   search_mode |-> IF a.search_mode = Omitted THEN "fixed_range" ELSE a.search_mode]

Parameters(a) ==
  [c14_age |-> a.c14_age,
   uncertainty |-> a.uncertainty,
   reservoir_correction |->
     IF a.reservoir_correction = Undefined THEN Num(0) ELSE a.reservoir_correction,
   curveType |-> IF a.curveType = Omitted THEN "IntCal20" ELSE a.curveType,
   search_mode |-> IF a.search_mode = Omitted THEN "c14_bp" ELSE a.search_mode]

BUFFER_YEARS == 500

FIXED_RANGE_MAX == 12000

EPOCH == 1950

\* The input validation: the error it throws, or "none".
ValidationErrorAgeExclusive(c14_age, uncertainty, reservoir_correction) ==
  IF ~TypeofNumber(c14_age) \/ IsNaN(c14_age) \/ c14_age.v <= 0 \/ c14_age.v > MAX_C14_AGE
    THEN "InvalidAge"
  ELSE IF ~TypeofNumber(uncertainty) \/ IsNaN(uncertainty) \/ uncertainty.v <= 0
    THEN "InvalidUncertainty"
  ELSE IF ~TypeofNumber(reservoir_correction) \/ IsNaN(reservoir_correction)
    THEN "InvalidReservoirCorrection"
  ELSE "none"

ValidationError(c14_age, uncertainty, reservoir_correction) ==
  IF ~TypeofNumber(c14_age) \/ IsNaN(c14_age) \/ c14_age.v < 0 \/ c14_age.v > MAX_C14_AGE
    THEN "InvalidAge"
  ELSE IF ~TypeofNumber(uncertainty) \/ IsNaN(uncertainty) \/ uncertainty.v <= 0
    THEN "InvalidUncertainty"
  ELSE IF ~TypeofNumber(reservoir_correction) \/ IsNaN(reservoir_correction)
    THEN "InvalidReservoirCorrection"
  ELSE "none"

\* curveType after the check against CURVE_TYPES.
EffectiveCurveTypeMarine(curveType) ==
  IF curveType \in CURVE_TYPES THEN curveType ELSE "Marine20"

EffectiveCurveType(curveType) ==
  IF curveType \in CURVE_TYPES THEN curveType ELSE "IntCal20"

\* const corrected_age = c14_age - reservoir_correction
CorrectedAgeAdded(c14_age, reservoir_correction) == c14_age + reservoir_correction

CorrectedAge(c14_age, reservoir_correction) == c14_age - reservoir_correction

\* An entry calibrationCurves[curveType]: an array, undefined, or a value
\* that is no array.
ArrayEntry(data) == [kind |-> "array", data |-> data]

UndefinedEntry == [kind |-> "undefined", data |-> <<>>]

ObjectEntry == [kind |-> "object", data |-> <<>>]

\* !calibrationCurves[curveType] || !Array.isArray(...) || ....length === 0
CurveMissingUndefinedOnly(calibrationCurves, curveType) ==
  calibrationCurves[curveType].kind = "undefined"

CurveMissing(calibrationCurves, curveType) ==
  \/ calibrationCurves[curveType].kind = "undefined"
  \/ calibrationCurves[curveType].kind # "array"
  \/ Len(calibrationCurves[curveType].data) = 0

\* The switch on search_mode: [minCalBP, maxCalBP] before the clamp.
SelectedRangeNoLowerBound(search_mode, curveData, corrected_age, uncertainty) ==
  CASE search_mode = "c14_bp" ->
         LET calRange == findCalendarRangeByC14BP(curveData, corrected_age, uncertainty)
         IN  [minCalBP |-> JsPlus(calRange.min, 0 - BUFFER_YEARS),
              maxCalBP |-> JsPlus(calRange.max, BUFFER_YEARS)]
    [] search_mode = "full_curve" ->
         [minCalBP |-> At(curveData, 0).cal_BP,
          maxCalBP |-> At(curveData, Len(curveData) - 1).cal_BP]
    [] OTHER ->
         [minCalBP |-> 0, maxCalBP |-> FIXED_RANGE_MAX]

SelectedRange(search_mode, curveData, corrected_age, uncertainty) ==
  CASE search_mode = "c14_bp" ->
         LET calRange == findCalendarRangeByC14BP(curveData, corrected_age, uncertainty)
         IN  [minCalBP |-> Max2(0, JsPlus(calRange.min, 0 - BUFFER_YEARS)),
              maxCalBP |-> JsPlus(calRange.max, BUFFER_YEARS)]
    [] search_mode = "full_curve" ->
         [minCalBP |-> At(curveData, 0).cal_BP,
          maxCalBP |-> At(curveData, Len(curveData) - 1).cal_BP]
    [] OTHER ->
         [minCalBP |-> 0, maxCalBP |-> FIXED_RANGE_MAX]

\* "Constrain to valid curve range".
ConstrainedRange(range, curveData) ==
  [minCalBP |-> Max2(range.minCalBP, At(curveData, 0).cal_BP),
   maxCalBP |-> Min2(range.maxCalBP, At(curveData, Len(curveData) - 1).cal_BP)]

\* uniformCurve.map(point => ({cal_BP, probability: calculateProbability(...)}))
Probabilities(uniformCurve, corrected_age, uncertainty) ==
  [k \in 1..Len(uniformCurve) |->
     ProbPoint(uniformCurve[k].cal_BP,
               RatInt(calculateProbability(corrected_age, uncertainty,
                                           uniformCurve[k].c14_BP, uniformCurve[k].error)))]

\* probabilities.map(p => ({cal_BP, probability: p.probability / totalProbability}))
Normalized(probabilities, totalProbability) ==
  [k \in 1..Len(probabilities) |->
     ProbPoint(probabilities[k].cal_BP,
               RatDiv(probabilities[k].probability, totalProbability))]

\* Math.min(...hpd.map(r => r.min)) and Math.max(...hpd.map(r => r.max))
OverallRange(hpd) ==
  [min |-> MathMin({hpd[k].min : k \in DOMAIN hpd}),
   max |-> MathMax({hpd[k].max : k \in DOMAIN hpd})]

ErrorOutcome(error) == [status |-> "error", error |-> error]

\* calibrateDate from the check of the curve data on, with its parameters a
\* and the CurveSet it obtained: the locals it computes and the result it
\* returns, or the error.
Calibration(a, calibrationCurves) ==
  LET curveType == EffectiveCurveType(a.curveType) IN
  IF CurveMissing(calibrationCurves, curveType) THEN ErrorOutcome("MissingCurveData")
  \* curveData[0] of no point is undefined: curveData[0].cal_BP throws a TypeError
  ELSE IF Len(calibrationCurves[curveType].data) = 0 THEN ErrorOutcome("TypeError")
  ELSE
    LET corrected_age == CorrectedAge(a.c14_age.v, a.reservoir_correction.v)
        curveData == calibrationCurves[curveType].data
        selected == SelectedRange(a.search_mode, curveData, corrected_age, a.uncertainty.v)
        range == ConstrainedRange(selected, curveData)
        uniformCurve == createUniformDistribution(curveData, range.minCalBP, range.maxCalBP)
        probabilities == Probabilities(uniformCurve, corrected_age, a.uncertainty.v)
        totalProbability == TotalProbability(probabilities)
        normalizedProbabilities == Normalized(probabilities, totalProbability)
        sorted == StableSort(normalizedProbabilities, "probabilityDescending")
        hpd68 == findHPD(normalizedProbabilities, Rat(682, 1000))
        hpd95 == findHPD(normalizedProbabilities, Rat(954, 1000))
        locals == [curveData |-> curveData, corrected_age |-> corrected_age,
                   selected |-> selected, minCalBP |-> range.minCalBP,
                   maxCalBP |-> range.maxCalBP, probabilities |-> probabilities,
                   totalProbability |-> totalProbability]
    IN  IF Len(sorted) = 0
        \* modePoint is undefined: modePoint.cal_BP throws a TypeError
        THEN [status |-> "error", error |-> "TypeError", locals |-> locals]
        ELSE [status |-> "ok", locals |-> locals,
              result |->
                [input |-> [radiocarbon_age |-> a.c14_age, uncertainty |-> a.uncertainty,
                            reservoir_correction |-> a.reservoir_correction,
                            curve |-> curveType, search_mode |-> a.search_mode],
                 calibrated_years_BP |-> sorted[1].cal_BP,
                 calendar_year |-> EPOCH - sorted[1].cal_BP,
                 hpd68_ranges |-> hpd68,
                 hpd95_ranges |-> hpd95,
                 range_1sigma |-> OverallRange(hpd68),
                 range_2sigma |-> OverallRange(hpd95),
                 distribution |->
                   StableSort([k \in 1..Len(normalizedProbabilities) |->
                                 [x |-> normalizedProbabilities[k].cal_BP,
                                  y |-> normalizedProbabilities[k].probability]], "x"),
                 curveMetadata |-> curveType]]

(***************************************************************************)
(* The state of the calibrateDate call and of the data-loader cache before *)
(* any call: the cache is null (let CALIBRATION_CURVES = null).            *)
(***************************************************************************)
Null == [kind |-> "null"]

NoCall == [fn |-> "none"]

InitPipeline ==
  /\ CALIBRATION_CURVES = Null
  /\ pc = "idle"
  /\ args = Null
  /\ outcome = Null
  /\ getReturned = "notCalled"
  /\ load = "notCalled"

\* No caller has called yet.
NoCalls == <<>>

\* No loadCalibrationData or getCalibrationData call of another caller.
NotCalled == [called |-> FALSE, value |-> Null]

NoLoader == loads = NoCalls /\ got = NotCalled

\* The App is not mounted.
NoApp == app = Null /\ tasks = NoCalls /\ url = Null

InitOther == calls = NoCalls /\ NoLoader /\ NoApp

(***************************************************************************)
(* Spec: calls of calibrateDate against the curve data provider.           *)
(*                                                                         *)
(* calibrateDate runs without interruption up to `await                    *)
(* loadCalibrationData()` and from there to its end.  The provider is a    *)
(* collaborator (the tests replace it by a mock), so a load that succeeds  *)
(* may yield any of the test CurveSets; the loader's own parsing and       *)
(* sorting of curve files is not part of these calls.                      *)
(***************************************************************************)
\* IntCal20 of the test data: a wiggle, with radiocarbon ages 12 and 13 on
\* both sides of 30.
CurveWiggle == <<Point(0, 12, 1), Point(2, 30, 1), Point(4, 13, 2), Point(5, 31, 1)>>

\* A curve that starts later than BUFFER_YEARS.
CurveLate == <<Point(600, 12, 1), Point(602, 22, 3), Point(605, 14, 1)>>

\* A curve across FIXED_RANGE_MAX.
CurveAcross == <<Point(11998, 10, 1), Point(12000, 14, 1), Point(12003, 22, 2)>>

\* A curve beyond FIXED_RANGE_MAX.
CurveBeyond == <<Point(12500, 12, 1), Point(12502, 14, 1)>>

CurveSets ==
  {[IntCal20 |-> ArrayEntry(CurveWiggle), SHCal20 |-> ArrayEntry(CurveLate),
    Marine20 |-> ArrayEntry(CurveAcross)],
   [IntCal20 |-> ArrayEntry(CurveBeyond), SHCal20 |-> ArrayEntry(<<>>),
    Marine20 |-> UndefinedEntry],
   [IntCal20 |-> ObjectEntry, SHCal20 |-> ArrayEntry(CurveAcross),
    Marine20 |-> ArrayEntry(CurveWiggle)]}

Ages == {NotANumber, NaN, Num(0 - 1), Num(0), Num(12), Num(22),
         Num(MAX_C14_AGE), Num(MAX_C14_AGE + 1)}

Uncertainties == {NotANumber, NaN, Num(0 - 1), Num(0), Num(1), Num(2)}

ReservoirCorrections == {NotANumber, NaN, Undefined, Num(0 - 10), Num(0), Num(10)}

CurveTypeArgs == CURVE_TYPES \cup {"Unknown", Omitted}

SearchModeArgs == SEARCH_MODES \cup {"other", Omitted}

ArgSet ==
  [c14_age : Ages, uncertainty : Uncertainties,
   reservoir_correction : ReservoirCorrections,
   curveType : CurveTypeArgs, search_mode : SearchModeArgs]

Init == call = NoCall /\ ret = Null /\ InitPipeline /\ InitOther

\* getCalibrationData()
getCalibrationData == CALIBRATION_CURVES

CalibrateAlwaysLoads(a) ==
  /\ pc = "idle"
  /\ args' = a
  /\ IF ValidationError(Parameters(a).c14_age, Parameters(a).uncertainty,
                        Parameters(a).reservoir_correction) # "none"
     THEN /\ outcome' = ErrorOutcome(ValidationError(Parameters(a).c14_age,
                                                     Parameters(a).uncertainty,
                                                     Parameters(a).reservoir_correction))
          /\ getReturned' = "notCalled"
          /\ load' = "notCalled"
          /\ pc' = "done"
     ELSE /\ getReturned' = IF getCalibrationData = Null THEN "null" ELSE "curves"
          /\ load' = "pending"
          /\ outcome' = Null
          /\ pc' = "awaitLoad"
  /\ UNCHANGED <<call, ret, CALIBRATION_CURVES>>
  /\ UNCHANGED otherVars

CalibrateProviderFirst(a) ==
  /\ pc = "idle"
  /\ args' = a
  /\ getReturned' = IF getCalibrationData = Null THEN "null" ELSE "curves"
  /\ IF ValidationError(Parameters(a).c14_age, Parameters(a).uncertainty,
                        Parameters(a).reservoir_correction) # "none"
     THEN /\ outcome' = ErrorOutcome(ValidationError(Parameters(a).c14_age,
                                                     Parameters(a).uncertainty,
                                                     Parameters(a).reservoir_correction))
          /\ load' = "notCalled"
          /\ pc' = "done"
     ELSE IF getCalibrationData = Null
     THEN /\ load' = "pending"
          /\ outcome' = Null
          /\ pc' = "awaitLoad"
     ELSE /\ load' = "notCalled"
          /\ outcome' = Calibration(Parameters(a), getCalibrationData)
          /\ pc' = "done"
  /\ UNCHANGED <<call, ret, CALIBRATION_CURVES>>
  /\ UNCHANGED otherVars

\* calibrateDate is called: it runs to its end, or to the await of the load.
Calibrate(a) ==
  /\ pc = "idle"
  /\ args' = a
  /\ IF ValidationError(Parameters(a).c14_age, Parameters(a).uncertainty,
                        Parameters(a).reservoir_correction) # "none"
     THEN /\ outcome' = ErrorOutcome(ValidationError(Parameters(a).c14_age,
                                                     Parameters(a).uncertainty,
                                                     Parameters(a).reservoir_correction))
          /\ getReturned' = "notCalled"
          /\ load' = "notCalled"
          /\ pc' = "done"
     ELSE IF getCalibrationData = Null
     THEN /\ getReturned' = "null"
          /\ load' = "pending"
          /\ outcome' = Null
          /\ pc' = "awaitLoad"
     ELSE /\ getReturned' = "curves"
          /\ load' = "notCalled"
          /\ outcome' = Calibration(Parameters(a), getCalibrationData)
          /\ pc' = "done"
  /\ UNCHANGED <<call, ret, CALIBRATION_CURVES>>
  /\ UNCHANGED otherVars

\* loadCalibrationData resolves: the cache is set (or was set already) and
\* calibrateDate goes on with the CurveSet.
LoadResolves(curves) ==
  /\ pc = "awaitLoad"
  /\ CALIBRATION_CURVES' = IF CALIBRATION_CURVES # Null THEN CALIBRATION_CURVES ELSE curves
  /\ outcome' = Calibration(Parameters(args), CALIBRATION_CURVES')
  /\ load' = "resolved"
  /\ pc' = "done"
  /\ UNCHANGED <<call, ret, args, getReturned>>
  /\ UNCHANGED otherVars

\* The message of the error loadCalibrationData throws.
LoadErrorMessage ==
  "Failed to load calibration data. Please ensure all calibration files are available."

\* loadCalibrationData rejects: calibrateDate throws an error that wraps it.
LoadRejects ==
  /\ pc = "awaitLoad"
  /\ CALIBRATION_CURVES = Null
  /\ outcome' = [status |-> "error", error |-> "FailedToLoad", cause |-> LoadErrorMessage]
  /\ load' = "rejected"
  /\ pc' = "done"
  /\ UNCHANGED <<call, ret, CALIBRATION_CURVES, args, getReturned>>
  /\ UNCHANGED otherVars

\* The promise of calibrateDate is settled; the next call can come.
Return ==
  /\ pc = "done"
  /\ pc' = "idle"
  /\ args' = Null
  /\ outcome' = Null
  /\ getReturned' = "notCalled"
  /\ load' = "notCalled"
  /\ UNCHANGED <<call, ret, CALIBRATION_CURVES>>
  /\ UNCHANGED otherVars

Next ==
  \/ \E a \in ArgSet : Calibrate(a)
  \/ LoadRejects
  \/ \E curves \in CurveSets : LoadResolves(curves)
  \/ Return

Spec == Init /\ [][Next]_vars

(***************************************************************************)
(* SpecCurve: the curve lookup functions applied to test inputs.           *)
(***************************************************************************)
\* (c14_BP, error) of the test curve points.
PointVals == {<<10, 1>>, <<14, 3>>}

PointSet == {Point(cal, v[1], v[2]) : cal \in 0..MaxCal, v \in PointVals}

StrictlyAscending(curveData) ==
  \A i \in 1..(Len(curveData) - 1) : curveData[i].cal_BP < curveData[i + 1].cal_BP

\* The non-empty test curves, sorted strictly ascending by cal_BP.
Curves ==
  {c \in UNION {[1..n -> PointSet] : n \in 1..MaxCurveLen} : StrictlyAscending(c)}

TestYears == (0 - 1)..(MaxCal + 1)

InitCurve == call = NoCall /\ ret = Null /\ InitPipeline /\ InitOther

CallInterpolate ==
  /\ call = NoCall
  /\ \E targetCalBP \in TestYears, lowerPoint \in PointSet, upperPoint \in PointSet :
       /\ call' = [fn |-> "interpolate", targetCalBP |-> targetCalBP,
                   lowerPoint |-> lowerPoint, upperPoint |-> upperPoint]
       /\ ret' = interpolate(targetCalBP, lowerPoint, upperPoint)
  /\ UNCHANGED pipelineVars
  /\ UNCHANGED otherVars

CallGetCurveValueAt ==
  /\ call = NoCall
  /\ \E calBP \in TestYears, curveData \in Curves :
       /\ call' = [fn |-> "getCurveValueAt", calBP |-> calBP, curveData |-> curveData]
       /\ ret' = getCurveValueAt(calBP, curveData)
  /\ UNCHANGED pipelineVars
  /\ UNCHANGED otherVars

CallCreateUniformDistribution ==
  /\ call = NoCall
  /\ \E curveData \in Curves, startYear \in TestYears, endYear \in TestYears :
       /\ call' = [fn |-> "createUniformDistribution", curveData |-> curveData,
                   startYear |-> startYear, endYear |-> endYear]
       /\ ret' = createUniformDistribution(curveData, startYear, endYear)
  /\ UNCHANGED pipelineVars
  /\ UNCHANGED otherVars

\* Radiocarbon ages below, inside and above the ages of the test curves.
TestC14Ages == {3, 8, 12, 16, 21}

TestUncertainties == {1, 2}

CallFindCalendarRangeByC14BP ==
  /\ call = NoCall
  /\ \E curveData \in Curves, c14Age \in TestC14Ages, uncertainty \in TestUncertainties :
       /\ call' = [fn |-> "findCalendarRangeByC14BP", curveData |-> curveData,
                   c14Age |-> c14Age, uncertainty |-> uncertainty]
       /\ ret' = findCalendarRangeByC14BP(curveData, c14Age, uncertainty)
  /\ UNCHANGED pipelineVars
  /\ UNCHANGED otherVars

NextCurve ==
  \/ CallFindCalendarRangeByC14BP
  \/ CallInterpolate
  \/ CallGetCurveValueAt
  \/ CallCreateUniformDistribution

SpecCurve == InitCurve /\ [][NextCurve]_vars

(***************************************************************************)
(* SpecHPD: findHPD applied to test distributions.                         *)
(***************************************************************************)
Reverse(arr) == [k \in 1..Len(arr) |-> arr[Len(arr) + 1 - k]]

\* The k-th smallest year of a set of years.
KthYear(years, k) ==
  CHOOSE y \in years : Cardinality({z \in years : z < y}) = k - 1

\* For every set of at most MaxDistLen years and every assignment of
\* probabilities to them, the distribution in ascending order of year.
AscendingDistributions ==
  UNION {{[k \in 1..Cardinality(years) |->
             ProbPoint(KthYear(years, k), RatInt(p[KthYear(years, k)]))] :
          p \in [years -> 0..MaxProb]} :
         years \in {Y \in SUBSET (0..MaxYear) : Cardinality(Y) <= MaxDistLen}}

\* Test distributions: distinct integer years, in ascending or descending order.
Distributions == AscendingDistributions \cup {Reverse(d) : d \in AscendingDistributions}

\* Test confidence levels: inside (0, 1] and outside.
ConfLevels == {Rat(1, 2), Rat(682, 1000), Rat(954, 1000), RatInt(1),
               RatInt(0), Rat(3, 2), Rat(0 - 1, 2)}

ValidConf(conf) == RatLess(RatInt(0), conf) /\ ~RatLess(RatInt(1), conf)

InitHPD == call = NoCall /\ ret = Null /\ InitPipeline /\ InitOther

CallFindHPD ==
  /\ call = NoCall
  /\ \E probDist \in Distributions, conf \in ConfLevels :
       /\ call' = [fn |-> "findHPD", probDist |-> probDist, conf |-> conf]
       /\ ret' = findHPD(probDist, conf)
  /\ UNCHANGED pipelineVars
  /\ UNCHANGED otherVars

NextHPD == CallFindHPD

SpecHPD == InitHPD /\ [][NextHPD]_vars

(***************************************************************************)
(* Claims about findHPD (under SpecHPD).                                   *)
(***************************************************************************)
IsFindHPDCall == call.fn = "findHPD"

\* The year is covered by one of the returned intervals.
CoveredBy(intervals, year) ==
  \E k \in DOMAIN intervals : intervals[k].min <= year /\ year <= intervals[k].max

DistinctYears(probDist) ==
  \A i, j \in DOMAIN probDist : i # j => probDist[i].cal_BP # probDist[j].cal_BP

RECURSIVE CoveredProbability(_, _, _)
CoveredProbability(probDist, intervals, i) ==
  IF i > Len(probDist) THEN RatInt(0)
  ELSE LET rest == CoveredProbability(probDist, intervals, i + 1)
       IN  IF CoveredBy(intervals, probDist[i].cal_BP)
           THEN RatAdd(rest, probDist[i].probability) ELSE rest

\* C1: for a non-empty distribution with distinct integer years and a
\* confidence in (0, 1], every point whose year findHPD covers has a
\* probability >= that of every point whose year it does not cover.
C1_HPDDensity ==
  (IsFindHPDCall /\ Len(call.probDist) > 0 /\ DistinctYears(call.probDist)
     /\ ValidConf(call.conf))
  => \A i, j \in DOMAIN call.probDist :
       (CoveredBy(ret, call.probDist[i].cal_BP) /\ ~CoveredBy(ret, call.probDist[j].cal_BP))
       => ~RatLess(call.probDist[i].probability, call.probDist[j].probability)

\* A call in which a point is left out although another point, of a lower
\* probability than the best, is taken in.
C1_Witness ==
  /\ IsFindHPDCall /\ ValidConf(call.conf) /\ Len(call.probDist) = 4
  /\ \E i, j, k \in DOMAIN call.probDist :
       /\ CoveredBy(ret, call.probDist[i].cal_BP)
       /\ CoveredBy(ret, call.probDist[j].cal_BP)
       /\ ~CoveredBy(ret, call.probDist[k].cal_BP)
       /\ RatLess(call.probDist[j].probability, call.probDist[i].probability)
       /\ RatLess(call.probDist[k].probability, call.probDist[j].probability)

\* C2: for a non-empty distribution (normalized or not) and a confidence c in
\* (0, 1], the probabilities of the covered points sum to at least c times
\* the sum of all probabilities.
C2_HPDCoverage ==
  (IsFindHPDCall /\ Len(call.probDist) > 0 /\ ValidConf(call.conf))
  => ~RatLess(CoveredProbability(call.probDist, ret, 1),
              RatMul(TotalProbability(call.probDist), call.conf))

\* A call on a distribution that is not normalized, where the covered points
\* reach the target and some point is left out.
C2_Witness ==
  /\ IsFindHPDCall /\ ValidConf(call.conf) /\ Len(call.probDist) >= 3
  /\ TotalProbability(call.probDist) = RatInt(5)
  /\ \E k \in DOMAIN call.probDist :
       /\ ~CoveredBy(ret, call.probDist[k].cal_BP)
       /\ call.probDist[k].probability # RatInt(0)
  /\ RatLess(CoveredProbability(call.probDist, ret, 1), TotalProbability(call.probDist))

\* C3: every interval list findHPD returns is well formed: min <= max in
\* each interval, and each interval's min exceeds the max of the interval
\* before it by more than one year.
C3_IntervalsWellFormed ==
  IsFindHPDCall
  => /\ \A k \in DOMAIN ret : ret[k].min <= ret[k].max
     /\ \A k \in DOMAIN ret : k > 1 => ret[k].min - ret[k - 1].max > 1

\* A call that returns two intervals, one of them longer than a year, from
\* included points that are next to each other and points that are not.
C3_Witness ==
  /\ IsFindHPDCall /\ Len(ret) = 2
  /\ \E k \in DOMAIN ret : ret[k].min < ret[k].max
  /\ \E k \in DOMAIN call.probDist : ~CoveredBy(ret, call.probDist[k].cal_BP)

\* The years of the points with a probability other than zero.
NonzeroYears(probDist) ==
  {probDist[i].cal_BP : i \in {j \in DOMAIN probDist : probDist[j].probability # RatInt(0)}}

\* C14: for every non-empty distribution, the intervals of findHPD(dist, 1.0)
\* start at the smallest and end at the largest cal_BP among the points with
\* nonzero probability, and cover no point with zero probability that lies
\* outside that span.
C14_FullConfidenceSpan ==
  (IsFindHPDCall /\ Len(call.probDist) > 0 /\ call.conf = RatInt(1))
  => LET nonzero == NonzeroYears(call.probDist) IN
     /\ nonzero # {} =>
          /\ Len(ret) > 0
          /\ ret[1].min = MathMin(nonzero)
          /\ ret[Len(ret)].max = MathMax(nonzero)
     /\ \A i \in DOMAIN call.probDist :
          (/\ call.probDist[i].probability = RatInt(0)
           /\ \/ nonzero = {}
              \/ call.probDist[i].cal_BP < MathMin(nonzero)
              \/ call.probDist[i].cal_BP > MathMax(nonzero))
          => ~CoveredBy(ret, call.probDist[i].cal_BP)

\* The sum of max - min over the intervals.
RECURSIVE TotalWidth(_, _)
TotalWidth(intervals, k) ==
  IF k > Len(intervals) THEN 0
  ELSE (intervals[k].max - intervals[k].min) + TotalWidth(intervals, k + 1)

\* Every year the narrower intervals cover is covered by the wider ones.
CoversAll(wider, narrower) ==
  /\ \A k \in DOMAIN narrower :
       \E m \in DOMAIN wider :
         wider[m].min <= narrower[k].min /\ narrower[k].max <= wider[m].max
  /\ \A year \in 0..MaxYear : CoveredBy(narrower, year) => CoveredBy(wider, year)

\* C15: for a fixed distribution and confidences c1 <= c2 in (0, 1], the
\* years findHPD(dist, c1) covers are covered by findHPD(dist, c2), and the
\* total interval width for c2 is not smaller than for c1.
C15_MonotoneInConfidence ==
  (IsFindHPDCall /\ ValidConf(call.conf))
  => \A c2 \in ConfLevels :
       (ValidConf(c2) /\ ~RatLess(c2, call.conf))
       => /\ CoversAll(findHPD(call.probDist, c2), ret)
          /\ TotalWidth(findHPD(call.probDist, c2), 1) >= TotalWidth(ret, 1)

\* A call with confidence 1/2 on four points that returns intervals, and
\* for which the confidence 0.954 gives more intervals of a larger width.
C15_Witness ==
  /\ IsFindHPDCall /\ call.conf = Rat(1, 2) /\ Len(call.probDist) = 4
  /\ Len(ret) > 0
  /\ Len(findHPD(call.probDist, Rat(954, 1000))) > Len(ret)
  /\ TotalWidth(findHPD(call.probDist, Rat(954, 1000)), 1) > TotalWidth(ret, 1)

\* C16: for every non-empty distribution and every confidence that is zero,
\* negative or greater than 1, findHPD does not fail and returns exactly the
\* intervals it returns for the confidence 0.95.
C16_InvalidConfidenceFallback ==
  (/\ IsFindHPDCall /\ Len(call.probDist) > 0
   /\ \/ call.conf = RatInt(0)
      \/ RatLess(call.conf, RatInt(0))
      \/ RatLess(RatInt(1), call.conf))
  => /\ ret \in Seq([min : Int, max : Int])
     /\ ret = findHPD(call.probDist, Rat(95, 100))

\* A call with the confidence 0 on four points, which returns the two
\* intervals of the confidence 0.95, not the one point a target of 0 takes.
C16_Witness ==
  /\ IsFindHPDCall /\ call.conf = RatInt(0) /\ Len(call.probDist) = 4
  /\ Len(ret) = 2
  /\ \E k \in DOMAIN ret : ret[k].min < ret[k].max

(***************************************************************************)
(* Claims about the curve lookup (under SpecCurve).                        *)
(***************************************************************************)
\* The clamped piecewise-linear lookup, stated without the search.
ClampedLookup(calBP, curveData) ==
  LET n == Len(curveData) IN
  IF calBP <= curveData[1].cal_BP THEN PointValue(curveData[1])
  ELSE IF calBP >= curveData[n].cal_BP THEN PointValue(curveData[n])
  ELSE IF \E i \in 1..n : curveData[i].cal_BP = calBP
    THEN PointValue(curveData[CHOOSE i \in 1..n : curveData[i].cal_BP = calBP])
  ELSE LET i == CHOOSE i \in 1..(n - 1) :
                  curveData[i].cal_BP < calBP /\ calBP < curveData[i + 1].cal_BP
       IN  InterpolatedValue(interpolate(calBP, curveData[i], curveData[i + 1]))

\* C7: for a non-empty curve sorted strictly ascending by cal_BP and any
\* calBP, getCurveValueAt ends, reads no index outside the curve and returns
\* the clamped piecewise-linear lookup.
C7_CurveLookup ==
  (call.fn = "getCurveValueAt" /\ Len(call.curveData) > 0
     /\ StrictlyAscending(call.curveData))
  => /\ ret.kind \notin {"TypeError", "diverges"}
     /\ ret = ClampedLookup(call.calBP, call.curveData)

\* A lookup strictly between the second and third point of a three-point
\* curve, which the search reaches in two iterations and interpolates.
C7_Witness ==
  /\ call.fn = "getCurveValueAt" /\ Len(call.curveData) = 3
  /\ call.curveData[2].cal_BP < call.calBP /\ call.calBP < call.curveData[3].cal_BP
  /\ ret.kind = "interpolated" /\ ret.c14_BP.d > 1

\* lower + (target - lower.cal_BP) / (upper.cal_BP - lower.cal_BP) * (upper - lower)
LinearValue(target, lowerCal, upperCal, lowerVal, upperVal) ==
  Rat(lowerVal * (upperCal - lowerCal) + (target - lowerCal) * (upperVal - lowerVal),
      upperCal - lowerCal)

C9_UniformDistribution ==
  call.fn = "createUniformDistribution"
  => /\ Len(ret) = (IF call.startYear > call.endYear THEN 0
                    ELSE call.endYear - call.startYear + 1)
     /\ \A k \in DOMAIN ret :
          /\ ret[k].cal_BP = call.startYear + k - 1
          /\ ret[k].c14_BP = getCurveValueAt(ret[k].cal_BP, call.curveData).c14_BP
          /\ ret[k].error = getCurveValueAt(ret[k].cal_BP, call.curveData).error
     /\ \A k \in DOMAIN ret : k > 1 => ret[k].cal_BP - ret[k - 1].cal_BP = 1
     /\ (Len(ret) > 0 => ret[Len(ret)].cal_BP = call.endYear)

\* A resampling of a coarser curve over several years, some of them between
\* curve points.
C9_Witness ==
  /\ call.fn = "createUniformDistribution"
  /\ Len(ret) >= 4 /\ Len(call.curveData) >= 2
  /\ \E k \in DOMAIN ret : ret[k].c14_BP.d > 1
  /\ \E k \in DOMAIN ret : ret[k].cal_BP = call.curveData[2].cal_BP

\* The cal_BP of the curve points whose c14_BP lies in the band of
\* SEARCH_SIGMAS uncertainties around the age.
BandYears(curveData, c14Age, uncertainty) ==
  {curveData[i].cal_BP : i \in {j \in DOMAIN curveData :
      /\ c14Age - 5 * uncertainty <= curveData[j].c14_BP
      /\ curveData[j].c14_BP <= c14Age + 5 * uncertainty}}

\* C11: for every non-empty curve, age and uncertainty,
\* findCalendarRangeByC14BP returns the minimum and the maximum cal_BP over
\* exactly the curve points whose c14_BP lies in
\* [age - 5 * uncertainty, age + 5 * uncertainty]: no point outside the band
\* has a part in the result.
C11_BandMinMax ==
  (call.fn = "findCalendarRangeByC14BP" /\ Len(call.curveData) > 0)
  => LET years == BandYears(call.curveData, call.c14Age, call.uncertainty)
     IN  ret = [min |-> MathMin(years), max |-> MathMax(years)]

(***************************************************************************)
(* Claims about calibrateDate (under Spec).                                *)
(***************************************************************************)
Returned == pc = "done" /\ outcome.status = "ok"

Failed == pc = "done" /\ outcome.status = "error"

\* The call got past the validation and the check of the curve data.
Calibrated == pc = "done" /\ "locals" \in DOMAIN outcome

RECURSIVE SumY(_, _)
SumY(distribution, i) ==
  IF i > Len(distribution) THEN RatInt(0)
  ELSE LET rest == SumY(distribution, i + 1) IN RatAdd(rest, distribution[i].y)

\* C4: for every call that passes the validation and finds its curve data,
\* the probabilities of the returned distribution sum to 1, each being its
\* raw density divided by the sum of the raw densities.
C4_NormalizedSumsToOne ==
  Returned
  => LET distribution == outcome.result.distribution
         probabilities == outcome.locals.probabilities
     IN  /\ SumY(distribution, 1) = RatInt(1)
         /\ \A k \in DOMAIN distribution :
              /\ IsNumber(distribution[k].y)
              /\ distribution[k].y = RatDiv(probabilities[k].probability,
                                            TotalProbability(probabilities))

\* The arguments the validation is to reject, stated on the arguments (a
\* reservoir correction left out is 0).
InvalidArguments(a) ==
  \/ a.c14_age.t # "number" \/ a.c14_age.v < 0 \/ a.c14_age.v > 100000
  \/ a.uncertainty.t # "number" \/ a.uncertainty.v <= 0
  \/ a.reservoir_correction.t \notin {"number", "undefined"}

InvalidInputErrors == {"InvalidAge", "InvalidUncertainty", "InvalidReservoirCorrection"}

\* C5 as stated: calibrateDate fails with an error exactly when an argument
\* is invalid.
C5_FailsExactlyWhenInvalid ==
  pc = "done" => (outcome.status = "error" <=> InvalidArguments(args))

\* C5 as amended: calibrateDate fails with an invalid-input error, and
\* returns no result, exactly when c14_age is no number, NaN, < 0 or
\* > 100000, or uncertainty is no number, NaN or <= 0, or
\* reservoir_correction is no number or NaN; the ages 0 and 100000 and a
\* reservoir correction of any sign pass the validation.
C5_InvalidInputError ==
  pc = "done"
  => /\ (outcome.status = "error" /\ outcome.error \in InvalidInputErrors)
          <=> InvalidArguments(args)
     /\ InvalidArguments(args) => DOMAIN outcome = {"status", "error"}
     /\ ~InvalidArguments(args) => getReturned # "notCalled"

\* A call with the age 100001, one above the limit, rejected although the
\* other arguments are valid.
C5_Witness ==
  /\ Failed /\ outcome.error = "InvalidAge"
  /\ args.c14_age = Num(100001)
  /\ args.uncertainty = Num(1) /\ args.reservoir_correction = Num(0 - 10)

\* C6: loadCalibrationData is called if and only if getCalibrationData
\* returned null; when the load fails, calibrateDate fails with an error
\* that wraps the load error, calibrates nothing and returns no result.
C6_LoadWhenNull ==
  /\ load # "notCalled" <=> getReturned = "null"
  /\ load = "rejected"
       => /\ Failed
          /\ outcome.error = "FailedToLoad" /\ outcome.cause = LoadErrorMessage
          /\ DOMAIN outcome = {"status", "error", "cause"}

\* A call with valid arguments that found no data, called the load and
\* failed because the load failed.
C6_Witness ==
  /\ Failed /\ getReturned = "null" /\ load = "rejected"
  /\ ~InvalidArguments(args)

\* C10: in every search mode, for valid input and a non-empty curve, both
\* bounds of the range calibrateDate evaluates lie within the curve and are
\* finite.
C10_RangeWithinCurve ==
  Calibrated
  => LET curveData == outcome.locals.curveData IN
     /\ curveData[1].cal_BP <= outcome.locals.minCalBP
     /\ outcome.locals.maxCalBP <= curveData[Len(curveData)].cal_BP
     /\ IsFinite(outcome.locals.minCalBP) /\ IsFinite(outcome.locals.maxCalBP)

\* C12: before the clamp to the curve, the evaluated range is
\* [max(0, span.min - 500), span.max + 500] in c14_bp mode, span being the
\* result of findCalendarRangeByC14BP for the corrected age; the curve's
\* first and last cal_BP in full_curve mode; and [0, 12000] in fixed_range
\* mode and for any unrecognised search mode.
C12_RangeBeforeClamp ==
  Calibrated
  => LET curveData == outcome.locals.curveData
         search_mode == Parameters(args).search_mode
         span == findCalendarRangeByC14BP(curveData, outcome.locals.corrected_age,
                                          args.uncertainty.v)
         spanMinLessBuffer == IF IsFinite(span.min) THEN span.min - 500 ELSE span.min
         spanMaxPlusBuffer == IF IsFinite(span.max) THEN span.max + 500 ELSE span.max
     IN  /\ search_mode = "c14_bp" =>
              /\ outcome.locals.selected.minCalBP
                   = (IF spanMinLessBuffer > 0 THEN spanMinLessBuffer ELSE 0)
              /\ outcome.locals.selected.maxCalBP = spanMaxPlusBuffer
         /\ search_mode = "full_curve" =>
              /\ outcome.locals.selected.minCalBP = curveData[1].cal_BP
              /\ outcome.locals.selected.maxCalBP = curveData[Len(curveData)].cal_BP
         /\ search_mode \notin {"c14_bp", "full_curve"} =>
              outcome.locals.selected = [minCalBP |-> 0, maxCalBP |-> 12000]

\* A call in c14_bp mode on the wiggle curve whose band holds the points of
\* the years 0 and 4: the lower bound 0 - 500 is raised to 0, the upper
\* bound is 4 + 500.
C12_Witness ==
  /\ Calibrated /\ args.search_mode = "c14_bp"
  /\ outcome.locals.curveData = CurveWiggle
  /\ outcome.locals.selected = [minCalBP |-> 0, maxCalBP |-> 504]

\* The outcome of a call of calibrateDate with the arguments a that finds the
\* CurveSet curves loaded.
OutcomeWith(a, curves) ==
  LET error == ValidationError(Parameters(a).c14_age, Parameters(a).uncertainty,
                               Parameters(a).reservoir_correction)
  IN  IF error # "none" THEN ErrorOutcome(error) ELSE Calibration(Parameters(a), curves)

\* Two outcomes are the same but for the echoed input.
SameButInput(o1, o2) ==
  /\ o1.status = o2.status
  /\ o1.status = "error" => o1.error = o2.error
  /\ o1.status = "ok" =>
       /\ o1.result.calibrated_years_BP = o2.result.calibrated_years_BP
       /\ o1.result.calendar_year = o2.result.calendar_year
       /\ o1.result.hpd68_ranges = o2.result.hpd68_ranges
       /\ o1.result.hpd95_ranges = o2.result.hpd95_ranges
       /\ o1.result.distribution = o2.result.distribution

\* The call has ended, the curve data is loaded, and the age, uncertainty
\* and reservoir correction of the call are numbers.
EndedWithNumbers ==
  /\ pc = "done" /\ CALIBRATION_CURVES # Null
  /\ args.c14_age.t = "number" /\ args.uncertainty.t = "number"
  /\ Parameters(args).reservoir_correction.t = "number"

\* The arguments of calibrateDate(c14Age - R, u, 0), other arguments as in
\* the call.
WithCorrectionApplied(a) ==
  [a EXCEPT !.c14_age = Num(a.c14_age.v - Parameters(a).reservoir_correction.v),
            !.reservoir_correction = Num(0)]

\* C13 as stated: for every c14Age, u and R, calibrateDate(c14Age, u, R) and
\* calibrateDate(c14Age - R, u, 0) on the same curve and search mode both
\* return, with the same mode year, hpd68 and hpd95 intervals and
\* distribution, or both fail.
C13_ReservoirEquivalence ==
  EndedWithNumbers
  => LET other == OutcomeWith(WithCorrectionApplied(args), CALIBRATION_CURVES)
     IN  /\ outcome.status = other.status
         /\ outcome.status = "ok" =>
              /\ outcome.result.calibrated_years_BP = other.result.calibrated_years_BP
              /\ outcome.result.hpd68_ranges = other.result.hpd68_ranges
              /\ outcome.result.hpd95_ranges = other.result.hpd95_ranges
              /\ outcome.result.distribution = other.result.distribution

\* C13 as amended: for every u and every c14Age and R with both c14Age and
\* c14Age - R within [0, 100000], calibrateDate(c14Age, u, R) and
\* calibrateDate(c14Age - R, u, 0) on the same curve and search mode have
\* the same outcome: the same error, or the same mode year, hpd68 and hpd95
\* intervals and distribution.
C13_ReservoirEquivalenceInRange ==
  (/\ EndedWithNumbers
   /\ 0 <= args.c14_age.v /\ args.c14_age.v <= 100000
   /\ 0 <= WithCorrectionApplied(args).c14_age.v
   /\ WithCorrectionApplied(args).c14_age.v <= 100000)
  => SameButInput(outcome, OutcomeWith(WithCorrectionApplied(args), CALIBRATION_CURVES))

\* A call of age 12 with the reservoir correction -10 (the corrected age 22
\* is a valid age) that returns a distribution of numbers.
C13_Witness ==
  /\ Returned /\ args.c14_age = Num(12) /\ args.reservoir_correction = Num(0 - 10)
  /\ IsNumber(outcome.result.distribution[1].y)
  /\ Len(outcome.result.hpd68_ranges) > 0

\* The call has ended and its curveType is none of IntCal20, SHCal20,
\* Marine20 (and was not left out).
EndedWithUnknownCurveType ==
  pc = "done" /\ args.curveType \notin CURVE_TYPES \cup {Omitted}

\* The arguments of the same call made with curveType = IntCal20.
WithIntCal20(a) == [a EXCEPT !.curveType = "IntCal20"]

\* C17 as stated: when curveType is none of IntCal20, SHCal20, Marine20,
\* calibrateDate (with valid numbers) does not fail, and returns the mode
\* year, HPD intervals, distribution and curve metadata of the same call made
\* with curveType = IntCal20.
C17_UnknownCurveTypeDoesNotFail ==
  (EndedWithUnknownCurveType /\ ~InvalidArguments(args))
  => /\ outcome.status = "ok"
     /\ SameButInput(outcome, OutcomeWith(WithIntCal20(args), CALIBRATION_CURVES))

\* C17 as amended: when curveType is none of IntCal20, SHCal20, Marine20,
\* calibrateDate does not fail on account of the curve type: it has the
\* outcome of the same call made with curveType = IntCal20, that is the same
\* error when that call fails, and otherwise the same mode year, HPD
\* intervals, distribution and curve metadata.
C17_UnknownCurveTypeAsIntCal20 ==
  EndedWithUnknownCurveType
  => IF load = "rejected"
     THEN outcome = [status |-> "error", error |-> "FailedToLoad",
                     cause |-> LoadErrorMessage]
     ELSE LET other == OutcomeWith(WithIntCal20(args), CALIBRATION_CURVES)
          IN  /\ SameButInput(outcome, other)
              /\ outcome.status = "ok" =>
                   /\ outcome.result.curveMetadata = "IntCal20"
                   /\ outcome.result.curveMetadata = other.result.curveMetadata

\* A call with the curve type "Unknown" that returns a result computed on
\* the IntCal20 curve, while the other curves are loaded as well.
C17_Witness ==
  /\ Returned /\ args.curveType = "Unknown"
  /\ outcome.locals.curveData = CurveWiggle
  /\ CALIBRATION_CURVES.Marine20 = ArrayEntry(CurveAcross)
  /\ IsNumber(outcome.result.distribution[1].y)

\* C18: when the CurveSet obtained from getCalibrationData or
\* loadCalibrationData has no entry, an entry that is no array or an empty
\* array for the effective curve type, calibrateDate fails with the error of
\* the missing curve data, computes nothing and returns no result.
C18_MissingCurveDataFails ==
  (pc = "done" /\ getReturned # "notCalled" /\ load # "rejected")
  => LET curveType == IF Parameters(args).curveType \in CURVE_TYPES
                      THEN Parameters(args).curveType ELSE "IntCal20"
         entry == CALIBRATION_CURVES[curveType]
     IN  (entry.kind = "undefined" \/ entry.kind # "array" \/ entry.data = <<>>)
         => /\ Failed /\ outcome.error = "MissingCurveData"
            /\ DOMAIN outcome = {"status", "error"}

\* A call for SHCal20 that obtained a CurveSet whose SHCal20 entry is an
\* empty array, and failed.
C18_Witness ==
  /\ Failed /\ outcome.error = "MissingCurveData"
  /\ args.curveType = "SHCal20"
  /\ CALIBRATION_CURVES # Null /\ CALIBRATION_CURVES.SHCal20 = ArrayEntry(<<>>)

\* C19: in every result of calibrateDate, calibrated_years_BP is the year of
\* a distribution point whose probability is the maximum of the
\* distribution, and of the points that share the maximum it is the one with
\* the smallest cal_BP.
C19_ModeIsFirstMaximum ==
  Returned
  => LET distribution == outcome.result.distribution IN
     \E k \in DOMAIN distribution :
       /\ distribution[k].x = outcome.result.calibrated_years_BP
       /\ \A j \in DOMAIN distribution : JsGeq(distribution[k].y, distribution[j].y)
       /\ \A j \in DOMAIN distribution :
            distribution[j].y = distribution[k].y => distribution[k].x <= distribution[j].x

\* The argument as passed, or the default when it was left out.
PassedOr(argument, omitted, default) == IF argument = omitted THEN default ELSE argument

\* C20 as stated: for every successful call, result.input holds the
\* radiocarbon age, uncertainty, reservoir correction, curve type and search
\* mode exactly as the caller passed them, with the defaults 0, IntCal20 and
\* c14_bp for those left out.
C20_InputEchoed ==
  Returned
  => outcome.result.input =
       [radiocarbon_age |-> args.c14_age,
        uncertainty |-> args.uncertainty,
        reservoir_correction |-> PassedOr(args.reservoir_correction, Undefined, Num(0)),
        curve |-> PassedOr(args.curveType, Omitted, "IntCal20"),
        search_mode |-> PassedOr(args.search_mode, Omitted, "c14_bp")]

\* C20 as amended: for every successful call, result.input holds the
\* radiocarbon age, uncertainty, reservoir correction and search mode exactly
\* as the caller passed them (0 and c14_bp when left out), and as curve the
\* curve type passed when it is one of IntCal20, SHCal20, Marine20, and
\* IntCal20 when it was left out or is none of them.
C20_InputEchoedEffectiveCurve ==
  Returned
  => outcome.result.input =
       [radiocarbon_age |-> args.c14_age,
        uncertainty |-> args.uncertainty,
        reservoir_correction |-> PassedOr(args.reservoir_correction, Undefined, Num(0)),
        curve |-> IF args.curveType \in {"IntCal20", "SHCal20", "Marine20"}
                  THEN args.curveType ELSE "IntCal20",
        search_mode |-> PassedOr(args.search_mode, Omitted, "c14_bp")]

\* A successful call with a reservoir correction, the curve type SHCal20
\* and the search mode left out, whose result echoes SHCal20 and c14_bp.
C20_Witness ==
  /\ Returned /\ args.curveType = "SHCal20" /\ args.search_mode = Omitted
  /\ args.reservoir_correction = Num(10)
  /\ outcome.result.input.curve = "SHCal20"
  /\ outcome.result.input.search_mode = "c14_bp"
  /\ outcome.result.input.reservoir_correction = Num(10)

(***************************************************************************)
(* SpecConcurrent: several callers call calibrateDate at the same time on  *)
(* one CurveSet that is loaded already, and a caller calls findHPD on a    *)
(* distribution it holds.                                                  *)
(*                                                                         *)
(* With the cache set, calibrateDate reaches no await: a call runs from    *)
(* its first statement to its return without interruption, and its promise *)
(* is settled later, so other calls run between a call's return and the    *)
(* continuation of its caller.  What a call can do to the other calls is   *)
(* to change the arrays they share: the curve arrays of the cache.         *)
(***************************************************************************)
MaxCalls == 2      \* callers that call calibrateDate at the same time

Callers == 1..MaxCalls

IdleCall == [pc |-> "idle", args |-> Null, outcome |-> Null]

\* const c14SortedCurve = [...curveData].sort(...): the copy is sorted and
\* curveData is as it was.
curveDataSortedInPlace(curveData) == C14SortedCurve(curveData)

curveDataAfterFindCalendarRange(curveData) == curveData

\* const sortedByProb = [...probDist].sort(...), probDist.reduce(...) and
\* includedPoints (a new array): probDist is as it was.
probDistAfterFindHPD(probDist) == probDist

\* The CurveSet after a call of calibrateDate with arguments a: the one
\* function that is handed the curve array and sorts is
\* findCalendarRangeByC14BP, in the c14_bp search mode; getCurveValueAt and
\* createUniformDistribution only read it.
CurveSetAfterCalibrate(a, calibrationCurves) ==
  LET p == Parameters(a)
      curveType == EffectiveCurveType(p.curveType)
  IN  IF \/ ValidationError(p.c14_age, p.uncertainty, p.reservoir_correction) # "none"
         \/ CurveMissing(calibrationCurves, curveType)
         \/ p.search_mode # "c14_bp"
      THEN calibrationCurves
      ELSE [calibrationCurves EXCEPT
              ![curveType].data = curveDataAfterFindCalendarRange(@)]

\* The calls the callers make: numbers that pass the validation, two curves,
\* the search mode that sorts and one that does not.
ConcurrentArgs ==
  [c14_age : {Num(12), Num(22)}, uncertainty : {Num(1)},
   reservoir_correction : {Num(0)},
   curveType : {"IntCal20", "Marine20"}, search_mode : {"c14_bp", "full_curve"}]

\* Distributions a caller holds, not in the order of their probabilities.
SharedDistributions ==
  {<<ProbPoint(0, RatInt(1)), ProbPoint(1, RatInt(2))>>,
   <<ProbPoint(0, RatInt(2)), ProbPoint(1, RatInt(1)), ProbPoint(2, RatInt(2))>>,
   <<ProbPoint(3, RatInt(0)), ProbPoint(1, RatInt(1)), ProbPoint(0, RatInt(2))>>}

InitConcurrent ==
  /\ call = NoCall /\ ret = Null
  /\ CALIBRATION_CURVES \in CurveSets
  /\ pc = "idle" /\ args = Null /\ outcome = Null
  /\ getReturned = "notCalled" /\ load = "notCalled"
  /\ calls = [i \in Callers |-> IdleCall]
  /\ NoLoader /\ NoApp

\* Caller i calls calibrateDate(a): getCalibrationData returns the cache and
\* the call runs to its return.
CalibrateLoaded(i, a) ==
  /\ calls[i].pc = "idle"
  /\ calls' = [calls EXCEPT ![i] = [pc |-> "done", args |-> a,
                                    outcome |-> OutcomeWith(a, getCalibrationData)]]
  /\ CALIBRATION_CURVES' = CurveSetAfterCalibrate(a, CALIBRATION_CURVES)
  /\ UNCHANGED <<call, ret, pc, args, outcome, getReturned, load>>
  /\ UNCHANGED <<loaderVars, appVars>>

\* The promise of caller i's call is settled and the caller goes on.
Settle(i) ==
  /\ calls[i].pc = "done"
  /\ calls' = [calls EXCEPT ![i] = IdleCall]
  /\ UNCHANGED <<call, ret, CALIBRATION_CURVES, pc, args, outcome, getReturned, load>>
  /\ UNCHANGED <<loaderVars, appVars>>

\* A caller calls findHPD on a distribution it holds, or drops the result.
CallFindHPDShared ==
  /\ \/ /\ call = NoCall
        /\ \E probDist \in SharedDistributions, conf \in {Rat(682, 1000), Rat(954, 1000)} :
             /\ call' = [fn |-> "findHPD", probDist |-> probDist, conf |-> conf,
                         probDistAfter |-> probDistAfterFindHPD(probDist)]
             /\ ret' = findHPD(probDist, conf)
     \/ /\ call # NoCall
        /\ call' = NoCall
        /\ ret' = Null
  /\ UNCHANGED <<CALIBRATION_CURVES, pc, args, outcome, getReturned, load, calls>>
  /\ UNCHANGED <<loaderVars, appVars>>

NextConcurrent ==
  \/ \E i \in Callers, a \in ConcurrentArgs : CalibrateLoaded(i, a)
  \/ \E i \in Callers : Settle(i)
  \/ CallFindHPDShared

SpecConcurrent == InitConcurrent /\ [][NextConcurrent]_vars

Comment == [kind |-> "comment"]

Blank == [kind |-> "blank"]

Row(parts) == [kind |-> "data", parts |-> parts]

\* lines.map((line, index) => ...): the point of a data line, or null.
ParsedLine(line) ==
  IF Len(line.parts) < 3 THEN Null
  ELSE IF IsNaN(line.parts[1]) \/ IsNaN(line.parts[2]) \/ IsNaN(line.parts[3]) THEN Null
  ELSE IF \/ line.parts[1].v < 0 \/ line.parts[1].v > 100000
          \/ line.parts[2].v < 0 \/ line.parts[2].v > 100000
          \/ line.parts[3].v <= 0
       THEN Null
  ELSE Point(line.parts[1].v, line.parts[2].v, line.parts[3].v)

\* parseCalibrationFile(fileContent): [] for the empty string, for a file
\* without data lines and for a file whose data lines all fail to parse.
parseCalibrationFile(fileContent) ==
  IF Len(fileContent) = 0 THEN <<>>
  ELSE LET lines == SelectSeq(fileContent, LAMBDA line : line.kind = "data")
       IN  IF Len(lines) = 0 THEN <<>>
           ELSE SelectSeq([k \in 1..Len(lines) |-> ParsedLine(lines[k])],
                          LAMBDA item : item # Null)

\* data.filter(point => point.cal_BP >= 0).sort((a, b) => a.cal_BP - b.cal_BP)
SortedData(data) ==
  StableSort(SelectSeq(data, LAMBDA point : point.cal_BP >= 0), "calBP")

\* A response of fetch: not ok, or ok with the text of a file.
NotOk == [ok |-> FALSE, text |-> <<>>]

Ok(text) == [ok |-> TRUE, text |-> text]

\* One of the curveFetches: [curveType, data], or the error it throws.
FetchFails(response) ==
  \/ ~response.ok
  \/ Len(parseCalibrationFile(response.text)) = 0

\* The calibrationCurves object built from three responses.
BuiltCurves(responses) ==
  [curveType \in CURVE_TYPES |->
     ArrayEntry(SortedData(parseCalibrationFile(responses[curveType].text)))]

\* A file in descending order of cal_BP, as the published curves are, with
\* header and blank lines and with lines the parser drops.
FileDescending ==
  <<Comment, Row(<<Num(2), Num(30), Num(1)>>), Row(<<Num(5), Num(31)>>),
    Row(<<NaN, Num(1), Num(1)>>), Row(<<Num(0 - 1), Num(5), Num(1)>>),
    Row(<<Num(3), Num(7), Num(0)>>), Blank,
    Row(<<Num(0), Num(12), Num(1), Num(7), Num(2)>>)>>

\* A file with two rows for one calendar year.
FileRepeatedYear ==
  <<Row(<<Num(1), Num(10), Num(1)>>), Row(<<Num(1), Num(12), Num(2)>>),
    Row(<<Num(0), Num(9), Num(1)>>)>>

\* A file without a row that parses.
FileNoRows == <<Comment, Row(<<Num(3), Num(7), Num(0)>>), Blank>>

Responses == {Ok(FileDescending), Ok(FileRepeatedYear), Ok(FileNoRows), NotOk}

\* The two callers of loadCalibrationData.
Loaders == {"App", "calibrateDate"}

IdleLoad == [pc |-> "idle", fetched |-> FALSE, value |-> Null]

InitLoader ==
  /\ call = NoCall /\ ret = Null /\ InitPipeline
  /\ calls = NoCalls /\ NoApp
  /\ loads = [i \in Loaders |-> IdleLoad]
  /\ got = NotCalled

\* loadCalibrationData() is called: it returns the cache, or starts the
\* three fetches and awaits them.
LoadCalled(i) ==
  /\ loads[i].pc = "idle"
  /\ loads' = [loads EXCEPT ![i] =
                 IF CALIBRATION_CURVES # Null
                 THEN [pc |-> "resolved", fetched |-> FALSE, value |-> CALIBRATION_CURVES]
                 ELSE [pc |-> "fetching", fetched |-> TRUE, value |-> Null]]
  /\ UNCHANGED <<call, ret, pipelineVars, calls, got, appVars>>

\* The fetches of a call have settled (a fetch that rejects fails the call
\* as a response that is not ok does): the call stores and returns the
\* curves, or throws.
FetchesSettled(i, responses) ==
  /\ loads[i].pc = "fetching"
  /\ IF \E curveType \in CURVE_TYPES : FetchFails(responses[curveType])
     THEN /\ loads' = [loads EXCEPT ![i] = [pc |-> "rejected", fetched |-> TRUE,
                                            value |-> [kind |-> "error",
                                                       message |-> LoadErrorMessage]]]
          /\ UNCHANGED CALIBRATION_CURVES
     ELSE /\ CALIBRATION_CURVES' = BuiltCurves(responses)
          /\ loads' = [loads EXCEPT ![i] = [pc |-> "resolved", fetched |-> TRUE,
                                            value |-> BuiltCurves(responses)]]
  /\ UNCHANGED <<call, ret, pc, args, outcome, getReturned, load, calls, got, appVars>>

\* The promise of a call is settled and its caller goes on.
LoadSettled(i) ==
  /\ loads[i].pc \in {"resolved", "rejected"}
  /\ loads' = [loads EXCEPT ![i] = IdleLoad]
  /\ UNCHANGED <<call, ret, pipelineVars, calls, got, appVars>>

\* getCalibrationData() is called.
GetCalled ==
  /\ got' = [called |-> TRUE, value |-> getCalibrationData]
  /\ UNCHANGED <<call, ret, pipelineVars, calls, loads, appVars>>

NextLoader ==
  \/ \E i \in Loaders : LoadCalled(i)
  \/ \E i \in Loaders, responses \in [CURVE_TYPES -> Responses] : FetchesSettled(i, responses)
  \/ \E i \in Loaders : LoadSettled(i)
  \/ GetCalled

SpecLoader == InitLoader /\ [][NextLoader]_vars

\* C22: the cache of the data-loader.  The cache is null until a load
\* succeeds, and getCalibrationData returns it; a load that fails leaves it
\* as it is; once a load has succeeded the cache holds that CurveSet for
\* good, and a loadCalibrationData call made from then on returns it
\* without fetching.
C22_CacheSetOnce ==
  [][/\ (CALIBRATION_CURVES = Null /\ CALIBRATION_CURVES' # Null) =>
          \E i \in Loaders : loads[i].pc = "fetching" /\ loads'[i].pc = "resolved"
     /\ \A i \in Loaders :
          (loads[i].pc = "fetching" /\ loads'[i].pc = "rejected") =>
            CALIBRATION_CURVES' = CALIBRATION_CURVES
     /\ got' # got => got'.value = CALIBRATION_CURVES
     /\ CALIBRATION_CURVES # Null => CALIBRATION_CURVES' = CALIBRATION_CURVES
     /\ \A i \in Loaders :
          (CALIBRATION_CURVES # Null /\ loads[i].pc = "idle" /\ loads'[i].pc # "idle") =>
            loads'[i] = [pc |-> "resolved", fetched |-> FALSE,
                         value |-> CALIBRATION_CURVES]]_vars

\* C23: every curve loadCalibrationData stores is in ascending order of
\* cal_BP and has no two points with the same cal_BP.
C23_StoredCurvesStrictlyAscending ==
  CALIBRATION_CURVES # Null =>
    \A curveType \in CURVE_TYPES : StrictlyAscending(CALIBRATION_CURVES[curveType].data)

(***************************************************************************)
(* SpecDensity: calculateProbability applied to test inputs.               *)
(*                                                                         *)
(* The measured ages are given by their deviation from the curve's age.    *)
(* The deviations are far enough apart for the fixed-point density to tell *)
(* them apart for every pair of test errors, but for the two beyond the    *)
(* underflow of Math.exp (more than 38.6 times the total error).           *)
(***************************************************************************)
TestCurveAges == {300, 1000, 5000, 12000}

TestDeviations == {0, 3, 0 - 3, 5, 0 - 5, 200, 0 - 200, 90000}

TestErrors == {1, 2}

InitDensity == call = NoCall /\ ret = Null /\ InitPipeline /\ InitOther

CallCalculateProbability ==
  /\ call = NoCall
  /\ \E curveC14BP \in TestCurveAges, deviation \in TestDeviations,
        c14Error \in TestErrors, curveError \in TestErrors :
       /\ call' = [fn |-> "calculateProbability", c14Age |-> curveC14BP + deviation,
                   c14Error |-> c14Error, curveC14BP |-> curveC14BP,
                   curveError |-> curveError]
       /\ ret' = calculateProbability(curveC14BP + deviation, c14Error,
                                      RatInt(curveC14BP), RatInt(curveError))
  /\ UNCHANGED pipelineVars
  /\ UNCHANGED otherVars

NextDensity == CallCalculateProbability

SpecDensity == InitDensity /\ [][NextDensity]_vars

IsDensityCall == call.fn = "calculateProbability"

\* The density of the call's errors at deviation d from the curve age c.
DensityAt(d, c) ==
  calculateProbability(c + d, call.c14Error, RatInt(c), RatInt(call.curveError))

\* 1 / (sigma * sqrt(2 * PI)) in the units of the fixed-point density, for
\* sigma = sqrt(c14Error^2 + curveError^2).
PeakDensity ==
  10000 \div Isqrt(100 * (call.c14Error * call.c14Error
                          + call.curveError * call.curveError))

\* The deviation is beyond the underflow of Math.exp.
Underflows(d) ==
  \/ Abs(d) >= 1000
  \/ d * d > 1490 * (call.c14Error * call.c14Error + call.curveError * call.curveError)

PlaceByProbability(i) ==
  Cardinality({j \in DOMAIN call.probDist :
                 RatLess(call.probDist[i].probability, call.probDist[j].probability)})
  + Cardinality({j \in 1..(i - 1) :
                   call.probDist[j].probability = call.probDist[i].probability})
  + 1

\* The sum of the probabilities of the first k points of that order.
RECURSIVE PrefixProbability(_, _)
PrefixProbability(k, i) ==
  IF i > Len(call.probDist) THEN RatInt(0)
  ELSE LET rest == PrefixProbability(k, i + 1)
       IN  IF PlaceByProbability(i) <= k
           THEN RatAdd(rest, call.probDist[i].probability) ELSE rest

\* The points findHPD selected are the first k points of that order.
SelectedIsPrefix(k) ==
  \A i \in DOMAIN call.probDist :
    CoveredBy(ret, call.probDist[i].cal_BP) <=> PlaceByProbability(i) <= k

TargetProbability == RatMul(TotalProbability(call.probDist), call.conf)

\* C25 as stated: for a non-empty distribution and a confidence c in (0, 1],
\* the points findHPD selects are the shortest non-empty prefix of the
\* distribution in descending order of probability (equal probabilities in
\* input order) whose cumulative probability is at least c times the total:
\* without its last point the prefix is strictly below that target.
C25_ShortestPrefix ==
  (IsFindHPDCall /\ Len(call.probDist) > 0 /\ ValidConf(call.conf))
  => \E k \in 1..Len(call.probDist) :
       /\ SelectedIsPrefix(k)
       /\ ~RatLess(PrefixProbability(k, 1), TargetProbability)
       /\ RatLess(PrefixProbability(k - 1, 1), TargetProbability)

\* C25, amended: the selected points are the shortest non-empty prefix of
\* that order whose cumulative probability is at least c times the total;
\* when the prefix has more than one point, it is strictly below the target
\* without its last point (the first point is selected also when the target
\* is 0).
C25_ShortestNonEmptyPrefix ==
  (IsFindHPDCall /\ Len(call.probDist) > 0 /\ ValidConf(call.conf))
  => \E k \in 1..Len(call.probDist) :
       /\ SelectedIsPrefix(k)
       /\ ~RatLess(PrefixProbability(k, 1), TargetProbability)
       /\ k > 1 => RatLess(PrefixProbability(k - 1, 1), TargetProbability)

\* A call that selects two points and leaves out a point of the same
\* probability as the second, which comes later in the input.
C25_Witness ==
  /\ IsFindHPDCall /\ ValidConf(call.conf)
  /\ Cardinality({i \in DOMAIN call.probDist :
                    CoveredBy(ret, call.probDist[i].cal_BP)}) = 2
  /\ \E i, j \in DOMAIN call.probDist :
       /\ i < j
       /\ call.probDist[i].probability = call.probDist[j].probability
       /\ call.probDist[i].probability # RatInt(0)
       /\ CoveredBy(ret, call.probDist[i].cal_BP)
       /\ ~CoveredBy(ret, call.probDist[j].cal_BP)

(***************************************************************************)
(* Further claims about calibrateDate (under Spec).                        *)
(***************************************************************************)
DocumentedErrors == InvalidInputErrors \cup {"MissingCurveData", "FailedToLoad"}

\* C26: calibrateDate never fails with an error other than an invalid-input,
\* a missing-curve or a load-failure error, and for valid arguments and a
\* non-empty curve in ascending order of cal_BP it returns a result whose
\* distribution is non-empty and whose mode year and HPD bounds are finite.
C26_CompletesWithFiniteResult ==
  pc = "done"
  => /\ outcome.status = "error" => outcome.error \in DocumentedErrors
     /\ (Calibrated /\ ~InvalidArguments(args))
          => /\ outcome.status = "ok"
             /\ Len(outcome.result.distribution) > 0
             /\ IsFinite(outcome.result.calibrated_years_BP)
             /\ \A k \in DOMAIN outcome.result.hpd68_ranges :
                  /\ IsFinite(outcome.result.hpd68_ranges[k].min)
                  /\ IsFinite(outcome.result.hpd68_ranges[k].max)
             /\ \A k \in DOMAIN outcome.result.hpd95_ranges :
                  /\ IsFinite(outcome.result.hpd95_ranges[k].min)
                  /\ IsFinite(outcome.result.hpd95_ranges[k].max)

\* C27: a call that rejects its arguments as invalid has called neither
\* getCalibrationData nor loadCalibrationData.
C27_InvalidInputTouchesNoProvider ==
  (pc = "done" /\ outcome.status = "error" /\ outcome.error \in InvalidInputErrors)
  => getReturned = "notCalled" /\ load = "notCalled"

\* A call with a valid age and the uncertainty 0 has been rejected while the
\* cache is null, so that a call that went on would have loaded.
C27_Witness ==
  /\ pc = "done" /\ CALIBRATION_CURVES = Null
  /\ args.c14_age = Num(12) /\ args.uncertainty = Num(0)
  /\ outcome = ErrorOutcome("InvalidUncertainty")

\* Every interval of inner lies within an interval of outer.
IntervalsWithin(inner, outer) ==
  \A k \in DOMAIN inner :
    \E j \in DOMAIN outer : outer[j].min <= inner[k].min /\ inner[k].max <= outer[j].max

\* C28: in every result the mode year lies in one of hpd68_ranges, every
\* interval of hpd68_ranges lies within an interval of hpd95_ranges, and
\* range_1sigma lies within range_2sigma.
C28_SummariesNested ==
  Returned
  => /\ CoveredBy(outcome.result.hpd68_ranges, outcome.result.calibrated_years_BP)
     /\ IntervalsWithin(outcome.result.hpd68_ranges, outcome.result.hpd95_ranges)
     /\ outcome.result.range_2sigma.min <= outcome.result.range_1sigma.min
     /\ outcome.result.range_1sigma.max <= outcome.result.range_2sigma.max

\* A result whose hpd95_ranges cover a year that hpd68_ranges do not, and
\* leave out a year of the distribution.
C28_Witness ==
  /\ Returned
  /\ \E k \in DOMAIN outcome.result.distribution :
       /\ CoveredBy(outcome.result.hpd95_ranges, outcome.result.distribution[k].x)
       /\ ~CoveredBy(outcome.result.hpd68_ranges, outcome.result.distribution[k].x)
  /\ \E k \in DOMAIN outcome.result.distribution :
       ~CoveredBy(outcome.result.hpd95_ranges, outcome.result.distribution[k].x)

(***************************************************************************)
(* SpecApp: the App component: its mount effect, which loads the curve     *)
(* data, and its two calibration handlers, handleCalibrate and             *)
(* handleCalibrateBatch, called while other calls of them are in flight.   *)
(*                                                                         *)
(* A handler runs without interruption from one await to the next.  The    *)
(* setters it calls between two awaits take effect together: React commits *)
(* the updates of one run of a handler in one render (automatic batching). *)
(* A step of the model is such a run and the state is the committed one.   *)
(* The page is opened without query parameters.                            *)
(***************************************************************************)
MaxTasks == 2      \* calls of the calibration handlers in flight at the same time

TaskIds == 1..MaxTasks

\* The curves the mount effect loads.
AppCurves ==
  [IntCal20 |-> ArrayEntry(CurveWiggle), SHCal20 |-> ArrayEntry(CurveLate),
   Marine20 |-> ArrayEntry(CurveAcross)]

InputData(radiocarbon_age, uncertainty, search_mode) ==
  [radiocarbon_age |-> Num(radiocarbon_age), uncertainty |-> Num(uncertainty),
   reservoir_correction |-> Num(0), curve |-> "IntCal20", search_mode |-> search_mode]

\* Inputs of a calibration: two that calibrate and one that fails (no point
\* of the curve is in its band).
AppInputs ==
  {InputData(12, 1, "c14_bp"), InputData(12, 2, "full_curve"), InputData(22, 1, "c14_bp")}

\* The item of a batch: the input and its sample_id.
BatchItem(inputData, sample_id) ==
  [f \in DOMAIN inputData \cup {"sample_id"} |->
     IF f = "sample_id" THEN sample_id ELSE inputData[f]]

\* Batches: none, one and two samples, and one whose second sample fails.
AppBatches ==
  {<<>>,
   <<BatchItem(InputData(12, 1, "c14_bp"), "A")>>,
   <<BatchItem(InputData(12, 1, "c14_bp"), "A"), BatchItem(InputData(12, 2, "full_curve"), "B")>>,
   <<BatchItem(InputData(12, 2, "full_curve"), "A"), BatchItem(InputData(22, 1, "c14_bp"), "B")>>}

\* calendar_year_AD < 0 ? Math.abs(calendar_year_AD) + " BCE" : calendar_year_AD + " CE"
FormattedYear(calendar_year_AD) ==
  IF calendar_year_AD < 0 THEN [year |-> Abs(calendar_year_AD), era |-> "BCE"]
  ELSE [year |-> calendar_year_AD, era |-> "CE"]

\* return {...calibrationResult, calendar_year}, or the error calibrateDate
\* has thrown.
Formatted(o) ==
  IF o.status = "error" THEN ErrorOutcome(o.error)
  ELSE [status |-> "ok",
        result |-> [o.result EXCEPT
                      !.calendar_year = FormattedYear(1950 - o.result.calibrated_years_BP)]]

\* performCalibration(inputData): what its promise will settle with.  The
\* cache is set, so calibrateDate runs to its end within the call.
performCalibration(inputData) ==
  CHOOSE r \in {Formatted(o) :
                  o \in {OutcomeWith([c14_age |-> inputData.radiocarbon_age,
                                      uncertainty |-> inputData.uncertainty,
                                      reservoir_correction |-> inputData.reservoir_correction,
                                      curveType |-> inputData.curve,
                                      search_mode |-> inputData.search_mode],
                                     getCalibrationData)}} : TRUE

\* {...result, input: {...result.input, sample_id: item.sample_id}}
WithSampleId(result, item) ==
  [result EXCEPT !.input = BatchItem(result.input, item.sample_id)]

Message(text) == [kind |-> "message", text |-> text]

Array(items) == [kind |-> "array", items |-> items]

\* A call of a handler: where it stands, the promise of performCalibration
\* it awaits, the items of the batch still to calibrate and the results
\* pushed so far.
IdleTask == [pc |-> "idle", awaited |-> Null, items |-> <<>>, batchResults |-> <<>>]

\* The state after the first render and the start of the mount effect.
InitApp ==
  /\ call = NoCall /\ ret = Null /\ InitPipeline
  /\ calls = NoCalls /\ NoLoader
  /\ app = [calibrationResults |-> Null, batchResults |-> Null, isBatchMode |-> FALSE,
            inputCollapsed |-> FALSE, hasInitialCalibration |-> FALSE,
            isLoading |-> TRUE, dataLoaded |-> FALSE, dataLoadError |-> Null,
            calibrationError |-> Null]
  /\ tasks = [t \in TaskIds |-> IdleTask]
  /\ url = Null

\* loadData of the mount effect: loadCalibrationData resolves.
LoadDataResolves ==
  /\ ~app.dataLoaded /\ app.dataLoadError = Null
  /\ CALIBRATION_CURVES' = AppCurves
  /\ app' = [app EXCEPT !.dataLoaded = TRUE, !.dataLoadError = Null, !.isLoading = FALSE]
  /\ UNCHANGED <<call, ret, pc, args, outcome, getReturned, load, calls, loaderVars,
                 tasks, url>>

\* loadData of the mount effect: loadCalibrationData rejects.
LoadDataRejects ==
  /\ ~app.dataLoaded /\ app.dataLoadError = Null
  /\ app' = [app EXCEPT
               !.dataLoadError =
                  Message("Failed to load calibration data. Please refresh the page to try again."),
               !.isLoading = FALSE]
  /\ UNCHANGED <<call, ret, pipelineVars, calls, loaderVars, tasks, url>>

\* The state after setCalibrationResults(results), setBatchResults(null),
\* setIsBatchMode(false), the collapse on the first calibration and the
\* finally block.
SingleShown(a, results) ==
  [a EXCEPT !.calibrationResults = results, !.batchResults = Null, !.isBatchMode = FALSE,
            !.inputCollapsed = IF a.hasInitialCalibration THEN @ ELSE TRUE,
            !.hasInitialCalibration = TRUE, !.isLoading = FALSE]

\* The state after setBatchResults(batchResults), setCalibrationResults(null),
\* setIsBatchMode(true), setHasInitialCalibration(true),
\* setInputCollapsed(true) and the finally block.
BatchShown(a, batchResults) ==
  [a EXCEPT !.batchResults = Array(batchResults), !.calibrationResults = Null,
            !.isBatchMode = TRUE, !.hasInitialCalibration = TRUE,
            !.inputCollapsed = TRUE, !.isLoading = FALSE]

\* handleCalibrate(inputData) up to await performCalibration(inputData).
HandleCalibrate(t, inputData) ==
  /\ tasks[t].pc = "idle"
  /\ IF ~app.dataLoaded
     THEN /\ app' = [app EXCEPT !.calibrationError =
                                   Message("Calibration data not loaded yet. Please wait.")]
          /\ UNCHANGED tasks
     ELSE /\ app' = [app EXCEPT !.isLoading = TRUE, !.calibrationError = Null]
          /\ tasks' = [tasks EXCEPT ![t] = [IdleTask EXCEPT !.pc = "awaitCalibration",
                                                            !.awaited =
                                                               performCalibration(inputData)]]
  /\ UNCHANGED <<call, ret, pipelineVars, calls, loaderVars, url>>

CalibrationSettlesKeepsBatch(t) ==
  /\ tasks[t].pc = "awaitCalibration"
  /\ IF tasks[t].awaited.status = "ok"
     THEN app' = [SingleShown(app, tasks[t].awaited.result)
                    EXCEPT !.batchResults = app.batchResults]
     ELSE app' = [app EXCEPT !.calibrationError = Message("Calibration failed"),
                             !.isLoading = FALSE]
  /\ tasks' = [tasks EXCEPT ![t] = IdleTask]
  /\ UNCHANGED <<call, ret, pipelineVars, calls, loaderVars, url>>

\* handleCalibrate from the await on: the results are shown, or the error.
CalibrationSettles(t) ==
  /\ tasks[t].pc = "awaitCalibration"
  /\ IF tasks[t].awaited.status = "ok"
     THEN app' = SingleShown(app, tasks[t].awaited.result)
     ELSE app' = [app EXCEPT !.calibrationError = Message("Calibration failed"),
                             !.isLoading = FALSE]
  /\ tasks' = [tasks EXCEPT ![t] = IdleTask]
  /\ UNCHANGED <<call, ret, pipelineVars, calls, loaderVars, url>>

\* handleCalibrateBatch(batchData) up to the first await (for a batch
\* without items: to its end).
HandleCalibrateBatch(t, batchData) ==
  /\ tasks[t].pc = "idle"
  /\ IF ~app.dataLoaded
     THEN /\ app' = [app EXCEPT !.calibrationError =
                                   Message("Calibration data not loaded yet. Please wait.")]
          /\ UNCHANGED tasks
     ELSE IF Len(batchData) = 0
     THEN /\ app' = BatchShown([app EXCEPT !.calibrationError = Null], <<>>)
          /\ UNCHANGED tasks
     ELSE /\ app' = [app EXCEPT !.isLoading = TRUE, !.calibrationError = Null]
          /\ tasks' = [tasks EXCEPT ![t] = [IdleTask EXCEPT !.pc = "awaitItem",
                                                            !.awaited =
                                                               performCalibration(batchData[1]),
                                                            !.items = batchData]]
  /\ UNCHANGED <<call, ret, pipelineVars, calls, loaderVars, url>>

\* handleCalibrateBatch from await performCalibration(item) on: the result
\* is pushed and the loop goes on to the delay before the next item, or
\* the batch is shown after the last item, or the error is shown.
BatchItemSettles(t) ==
  /\ tasks[t].pc = "awaitItem"
  /\ LET r == tasks[t].awaited
         batchResults == Append(tasks[t].batchResults,
                                WithSampleId(r.result, Head(tasks[t].items)))
     IN  IF r.status # "ok"
         THEN /\ app' = [app EXCEPT !.calibrationError = Message("Batch calibration failed"),
                                    !.isLoading = FALSE]
              /\ tasks' = [tasks EXCEPT ![t] = IdleTask]
         ELSE IF Len(tasks[t].items) = 1
         THEN /\ app' = BatchShown(app, batchResults)
              /\ tasks' = [tasks EXCEPT ![t] = IdleTask]
         ELSE /\ tasks' = [tasks EXCEPT ![t] = [@ EXCEPT !.pc = "awaitDelay",
                                                         !.awaited = Null,
                                                         !.items = Tail(@),
                                                         !.batchResults = batchResults]]
              /\ UNCHANGED app
  /\ UNCHANGED <<call, ret, pipelineVars, calls, loaderVars, url>>

\* The delay of 50 ms between two items is over: performCalibration is
\* called for the next item.
BatchDelayEnds(t) ==
  /\ tasks[t].pc = "awaitDelay"
  /\ tasks' = [tasks EXCEPT ![t] = [@ EXCEPT !.pc = "awaitItem",
                                                !.awaited =
                                                   performCalibration(Head(tasks[t].items))]]
  /\ UNCHANGED <<call, ret, pipelineVars, calls, loaderVars, app, url>>

NextApp ==
  \/ LoadDataResolves
  \/ LoadDataRejects
  \/ \E t \in TaskIds, inputData \in AppInputs : HandleCalibrate(t, inputData)
  \/ \E t \in TaskIds : CalibrationSettles(t)
  \/ \E t \in TaskIds, batchData \in AppBatches : HandleCalibrateBatch(t, batchData)
  \/ \E t \in TaskIds : BatchItemSettles(t)
  \/ \E t \in TaskIds : BatchDelayEnds(t)

SpecApp == InitApp /\ [][NextApp]_vars

\* The step handles the failure of the calibration that call t awaits.
FailureHandled(t) ==
  /\ tasks[t].pc \in {"awaitCalibration", "awaitItem"}
  /\ tasks[t].awaited.status = "error"
  /\ tasks'[t].pc = "idle"

\* C29: in the App, calibrationResults and batchResults are never both
\* non-null and isBatchMode is true exactly when batchResults is non-null,
\* whatever single and batch calibrations are made and however they
\* overlap; a step that handles a failed calibration, and every step made
\* before the data is loaded, leaves both results as they are.
C29_ResultsExclusive ==
  /\ [](/\ ~(app.calibrationResults # Null /\ app.batchResults # Null)
        /\ app.isBatchMode <=> app.batchResults # Null)
  /\ [][(~app.dataLoaded \/ \E t \in TaskIds : FailureHandled(t))
          => /\ app'.calibrationResults = app.calibrationResults
             /\ app'.batchResults = app.batchResults]_vars

\* A batch is shown, a single calibration made after it has failed, and
\* another call of a handler is still in flight.
C29_Witness ==
  /\ app.batchResults # Null /\ app.isBatchMode
  /\ Len(app.batchResults.items) = 2
  /\ app.calibrationError = Message("Calibration failed")
  /\ \E t \in TaskIds : tasks[t].pc \in {"awaitItem", "awaitDelay"}

(***************************************************************************)
(* Query parameters: updateQueryParams and the share link write the input  *)
(* into the URL's query string, parseQueryParams reads it back.            *)
(***************************************************************************)

DigitChars == <<"0", "1", "2", "3", "4", "5", "6", "7", "8", "9">>

RECURSIVE NaturalToString(_)
\* Number.prototype.toString of a non-negative integer: its decimal digits.
NaturalToString(n) ==
  IF n < 10 THEN <<DigitChars[n + 1]>>
  ELSE Append(NaturalToString(n \div 10), DigitChars[(n % 10) + 1])

\* params.set(name, value) converts a number to its string.
NumberToString(n) ==
  IF n < 0 THEN <<"-">> \o NaturalToString(-n) ELSE NaturalToString(n)

DigitValue(c) == CHOOSE d \in 0..9 : DigitChars[d + 1] = c

IsDigit(c) == \E d \in 0..9 : DigitChars[d + 1] = c

RECURSIVE LeadingDigits(_)
\* The longest prefix of digits that parseFloat consumes.
LeadingDigits(s) ==
  IF s = <<>> \/ ~IsDigit(Head(s)) THEN <<>>
  ELSE <<Head(s)>> \o LeadingDigits(Tail(s))

RECURSIVE DigitsToNatural(_)
DigitsToNatural(s) ==
  IF s = <<>> THEN 0
  ELSE 10 * DigitsToNatural(SubSeq(s, 1, Len(s) - 1)) + DigitValue(s[Len(s)])

\* parseFloat of an integer literal: an optional sign, then digits; NaN when
\* no digit follows.
parseFloat(s) ==
  LET negative == s # <<>> /\ Head(s) = "-"
      digits == LeadingDigits(IF negative THEN Tail(s) ELSE s)
  IN  IF digits = <<>> THEN NaN
      ELSE Num(IF negative THEN -DigitsToNatural(digits) ELSE DigitsToNatural(digits))

Absent == [present |-> FALSE]

Present(value) == [present |-> TRUE, value |-> value]

\* new URLSearchParams(): no parameter is set.
EmptyParams ==
  [age |-> Absent, uncertainty |-> Absent, reservoir |-> Absent,
   curve |-> Absent, mode |-> Absent]

\* The query string written by updateQueryParams and by the share link.
WrittenParams(inputData) ==
  [age |-> Present(NumberToString(inputData.radiocarbon_age)),
   uncertainty |-> Present(NumberToString(inputData.uncertainty)),
   reservoir |-> IF inputData.reservoir_correction > 0
                 THEN Present(NumberToString(inputData.reservoir_correction))
                 ELSE Absent,
   curve |-> Present(inputData.curve),
   mode |-> IF inputData.search_mode # "" THEN Present(inputData.search_mode)
            ELSE Absent]

SearchParams == IF url = Null THEN EmptyParams ELSE url.params

getNumericParam(params, name) ==
  IF params[name].present THEN parseFloat(params[name].value) ELSE Null

\* value || 0: null, NaN and 0 are falsy.
OrZero(value) ==
  IF value = Null \/ value = NaN \/ value = Num(0) THEN Num(0) ELSE value

parseQueryParams(params) ==
  [radiocarbon_age |-> getNumericParam(params, "age"),
   uncertainty |-> getNumericParam(params, "uncertainty"),
   reservoir_correction |-> OrZero(getNumericParam(params, "reservoir")),
   curve |-> IF params.curve.present /\ params.curve.value \in CURVE_TYPES
             THEN params.curve.value ELSE "IntCal20",
   search_mode |-> IF params.mode.present /\ params.mode.value \in SEARCH_MODES
                   THEN params.mode.value ELSE "c14_bp"]

QueryAges == {0, 12, 1000}

QueryUncertainties == {1, 20}

QueryReservoirs == {-50, 0, 400}

QueryInputs ==
  [radiocarbon_age : QueryAges, uncertainty : QueryUncertainties,
   reservoir_correction : QueryReservoirs, curve : CURVE_TYPES,
   search_mode : SEARCH_MODES]

InitQuery == call = NoCall /\ ret = Null /\ InitPipeline /\ InitOther

\* updateQueryParams(inputData) pushes the new URL.
UpdateQueryParams(inputData) ==
  /\ call = NoCall
  /\ call' = [fn |-> "updateQueryParams", inputData |-> inputData]
  /\ url' = [kind |-> "url", params |-> WrittenParams(inputData)]
  /\ ret' = Null
  /\ UNCHANGED <<calls, loads, got, app, tasks>>
  /\ UNCHANGED pipelineVars

\* The Share button builds the link from calibrationResults.input; the link
\* is then opened.
ShareLinkOpened(inputData) ==
  /\ call = NoCall
  /\ call' = [fn |-> "shareLink", inputData |-> inputData]
  /\ url' = [kind |-> "url", params |-> WrittenParams(inputData)]
  /\ ret' = Null
  /\ UNCHANGED <<calls, loads, got, app, tasks>>
  /\ UNCHANGED pipelineVars

\* parseQueryParams() reads window.location.search: when the page is mounted
\* without a query string, and when a written URL is opened.
ParseQueryParams ==
  /\ ret = Null
  /\ ret' = parseQueryParams(SearchParams)
  /\ UNCHANGED <<call, calls, loads, got, app, tasks, url>>
  /\ UNCHANGED pipelineVars

NextQuery ==
  \/ \E inputData \in QueryInputs : UpdateQueryParams(inputData)
  \/ \E inputData \in QueryInputs : ShareLinkOpened(inputData)
  \/ ParseQueryParams

SpecQuery == InitQuery /\ [][NextQuery]_vars

ParsedWritten ==
  /\ call # NoCall
  /\ call.fn \in {"updateQueryParams", "shareLink"}
  /\ url # Null
  /\ ret # Null

\* C30: parseQueryParams applied to the URL written by updateQueryParams (or
\* by the share link) returns the same five values, for numeric age and
\* uncertainty, a reservoir correction of any sign, a known curve and a known
\* search mode.
C30_ShareLinkRoundTrip ==
  ParsedWritten =>
    ret = [radiocarbon_age |-> Num(call.inputData.radiocarbon_age),
           uncertainty |-> Num(call.inputData.uncertainty),
           reservoir_correction |-> Num(call.inputData.reservoir_correction),
           curve |-> call.inputData.curve,
           search_mode |-> call.inputData.search_mode]

\* The round trip holds for every input whose reservoir correction is not
\* negative.
C30_RoundTripNonNegative ==
  (ParsedWritten /\ call.inputData.reservoir_correction >= 0) =>
    ret = [radiocarbon_age |-> Num(call.inputData.radiocarbon_age),
           uncertainty |-> Num(call.inputData.uncertainty),
           reservoir_correction |-> Num(call.inputData.reservoir_correction),
           curve |-> call.inputData.curve,
           search_mode |-> call.inputData.search_mode]

C30_NegativeLost ==
  /\ ParsedWritten
  /\ call.inputData.reservoir_correction = -50
  /\ ret.reservoir_correction = Num(0)
====
